---- MODULE Spec2Model ----
(***************************************************************************)
(* EmaneManager (daemon/core/emane/emanemanager.py): node registry,        *)
(* master/slave id negotiation, platform document generation, daemon and   *)
(* interface lifecycle, and the location-event worker thread.              *)
(*                                                                         *)
(* One manager instance is modelled together with the threads that touch   *)
(* it: the session thread that calls startup / shutdown / reset /          *)
(* poststartup, the broker thread that calls handledistributed, and the    *)
(* worker threads created by starteventmonitor.  Peer servers are modelled *)
(* by the configuration they received and the ids they build from it.      *)
(***************************************************************************)
EXTENDS Integers, Sequences, FiniteSets, TLC

VARIABLES
    \* ---- session / topology (fixed after Init) ----
    topo,           \* session.objects: EMANE node id -> set of attached netifs
    master,         \* session.master
    nodeServers,    \* broker.getserversbynode(k) for the EMANE nodes: set of server names
    srvSock,        \* server name -> TRUE iff server.sock is not None
    peerIfcs,       \* server name -> number of radio interfaces hosted by that peer
    monitorOn,      \* session config emane_event_monitor
    sessionNodes,   \* ids of the nodes session.get_object() finds
    eventKinds,     \* the batches of location events the event channel can deliver
    launchFails,    \* daemon keys whose launch command exits with a non-zero status
    portItems,      \* session config items emane_platform_port, emane_transform_port (0 = not set)
    \* ---- manager fields ----
    config,         \* global EMANE configuration values held by this manager
    emane_nodes,    \* self._emane_nodes (keys)
    nemidmap,       \* EmaneNode.nemidmap: <<emane node id, netif>> -> NEM id (0 = None)
    ifccounts,      \* self._ifccounts: server name -> count (partial)
    nodeLock,       \* owner of self._emane_node_lock ("free" or a thread name)
    ifcLock,        \* owner of self._ifccountslock ("free", "main" or "broker")
    service,        \* self.service: "none" or "open"
    svcBreak,       \* breakloop() has been written to the current service's pipe
    doeventloop,    \* self.doeventloop
    eventmonthread, \* self.eventmonthread: 0 (None) or a thread id
    platformport,   \* self.platformport
    transformport,  \* self.transformport
    \* ---- session thread ----
    pc,             \* position of the session thread inside the operation it runs
    op,             \* operation being run: "none", "startup", "shutdown", "reset", "add_node",
                    \*   "checkdistributed"
    ret,            \* outcome of the last finished startup or add_node call: the value
                    \*   returned or the exception that left it
    setupRet,       \* outcome of setup inside the current/last startup
    outcomes,       \* outcomes of the setup calls made so far, in order
    cd,             \* locals of checkdistributed: nemid, platformid, servers, ret, and
                    \*   start, the platform_id_start read when the call began
    platformxmls,   \* locals of buildplatformxml: document key -> content
    run,            \* what the current startup has done so far (record of sets/flags)
    opsLeft,        \* number of facade calls still to be made
    \* ---- outside world ----
    sent,           \* messages written to server.sock, in order
    linkMsgs,       \* link-add notifications not yet seen by handledistributed
    linkSeen,       \* per server, interfaces notified by link-adds since the counts were last cleared
    peerCfg,        \* server name -> configuration a peer holds (0 = none received)
    peerNems,       \* server name -> set of NEM ids the peer assigned (built or not)
    peerBuilt,      \* server name -> index of the message the peer last built from (0 = never)
    files,          \* session directory: file key -> content
    daemons,        \* emane processes running: set of platform keys
    installed,      \* EMANE nodes whose netifs are installed
    \* ---- worker threads ----
    wpc,            \* thread id -> position in eventmonitorloop
    wsvc,           \* thread id -> the service object its nextEvent call runs on:
                    \*   "none", "cur" (it is self.service), "closed", or "broken"
                    \*   (closed after breakloop was written to it)
    wscan,          \* thread id -> nemlookup: keys still to visit and the registry
                    \*   seen when the scan began
    wev,            \* thread id -> the events of the received batch still to be handled
    touched,        \* a worker used a closed or cleared transport
    position,       \* owner node id -> the <<x, y, z>> last set on the node
    outputs,        \* what the handlers logged and broadcast, in order
    eventsLeft      \* location events the event channel can still deliver

vars == <<topo, master, nodeServers, srvSock, peerIfcs, monitorOn, sessionNodes, eventKinds,
         launchFails, portItems, platformport, transformport,
          config, emane_nodes, nemidmap, ifccounts, nodeLock, ifcLock,
          service, svcBreak, doeventloop, eventmonthread,
          pc, op, ret, setupRet, outcomes, cd, platformxmls, run, opsLeft,
          sent, linkMsgs, linkSeen, peerCfg, peerNems, peerBuilt,
          files, daemons, installed,
          wpc, wsvc, wscan, wev, touched, position, outputs, eventsLeft>>

staticVars == <<topo, master, nodeServers, srvSock, peerIfcs, monitorOn,
                sessionNodes, eventKinds, launchFails, portItems>>
workerVars == <<wpc, wsvc, wscan, wev, touched, position, outputs, eventsLeft>>
peerVars   == <<peerCfg, peerNems, peerBuilt>>
portVars   == <<platformport, transformport>>

-----------------------------------------------------------------------------
(* Bounds of the model *)

DefaultPlatformPort  == 8100   \* line 82
DefaultTransformPort == 8200   \* line 83
NotSet == 0                    \* a session config item that has no value
NoPortItems == [emane_platform_port |-> NotSet, emane_transform_port |-> NotSet]

MaxNems    == 2   \* total radio interfaces of the local topology
MaxPeers   == 2   \* peer servers besides the local one
MaxStart   == 2   \* configured nem_id_start ranges over 1..MaxStart
MaxOps     == 2   \* facade calls made by the session thread
MaxEvents  == 1   \* location events delivered by the event channel
MaxLinks   == 2   \* link notifications racing with the facade calls

(* Identifier domains *)
EmaneIds  == {1, 2}          \* ids of EMANE (radio) nodes
OwnerIds  == {11, 12, 13, 14}   \* ids of the nodes owning interfaces
RawOwners == {13, 14}        \* owners that are raw-transport (RJ45) nodes
HostKey   == 0               \* the platform document key "host" (raw transport)
NetIndexes == {0, 1}         \* netif.netindex
Localhost == 0               \* server names are encoded by their rank in name order;
                             \* rank 0 stands for the name "localhost"
PeerNames == 1..MaxPeers
ServerNames == {Localhost} \cup PeerNames
Threads   == 1..MaxOps       \* every facade call can create at most one worker
PeerIfcCounts  == {0, 2}     \* radio interfaces hosted by one peer
PlatformStarts == {1, 4}     \* configured platform_id_start values
EventNemIds    == {1, 2, 9}  \* NEM ids carried by inbound location events

(* EmaneManager.SUCCESS, NOT_NEEDED, NOT_READY; "ERROR" is an exception leaving startup *)
SUCCESS    == "SUCCESS"
NOT_NEEDED == "NOT_NEEDED"
NOT_READY  == "NOT_READY"

(* EmaneGlobalModel defaults *)
DefaultPlatformIdStart == 1
DefaultNemIdStart      == 1
DefaultDev             == "ctrl0"
DefaultEventGroup      == "224.1.2.8:45703"

(* a netif: owning node, index on that node, transport kind; the interface of
   a raw-transport (RJ45) node is raw, every other interface is virtual *)
NetifOf(o, i) == [node |-> o, netindex |-> i,
                  transport_type |-> IF o \in RawOwners THEN "raw" ELSE "virtual"]
Netifs == {NetifOf(o, i) : o \in OwnerIds, i \in NetIndexes}

-----------------------------------------------------------------------------
(* Helpers *)

Min(S) == CHOOSE x \in S : \A y \in S : x <= y

RECURSIVE Sum(_, _)
Sum(f, S) == IF S = {} THEN 0
             ELSE LET x == CHOOSE y \in S : TRUE IN f[x] + Sum(f, S \ {x})

(* sorted(S) for a set of integers *)
RECURSIVE SortedSeq(_)
SortedSeq(S) == IF S = {} THEN <<>> ELSE <<Min(S)>> \o SortedSeq(S \ {Min(S)})

(* all orders in which the elements of S can be enumerated *)
Orders(S) == {f \in [1..Cardinality(S) -> S] :
                 \A i, j \in 1..Cardinality(S) : i # j => f[i] # f[j]}

Range(f) == {f[i] : i \in DOMAIN f}

(* emane_node.netifs() / numnetif() of a session object *)
netifs(k) == topo[k]
numnetif(k) == Cardinality(topo[k])

(* all <<emane node, netif>> pairs of the session *)
AllNems == {<<k, n>> : k \in EmaneIds, n \in Netifs}
TopoNems(t) == {<<k, n>> \in AllNems : k \in DOMAIN t /\ n \in t[k]}

(* numnems(): NEMs of the registered EMANE nodes *)
numnems == Sum([k \in emane_nodes |-> numnetif(k)], emane_nodes)

(* getnodes(): containers linked to a registered EMANE node *)
getnodes == {n.node : n \in UNION {netifs(k) : k \in emane_nodes}}

(* session.get_control_net_index(dev) >= 0 *)
ValidControlNet(dev) == dev \in {"ctrl0", "ctrl1"}

(* ctrlnet.brname of control net 0 *)
BridgeName == "b.ctrl0net"

DocKeys == OwnerIds \cup {HostKey}

(* the values a configuration message carries / a manager holds *)
DefaultConfig == [platform_id_start  |-> DefaultPlatformIdStart,
                  nem_id_start       |-> DefaultNemIdStart,
                  otamanagerdevice   |-> DefaultDev,
                  eventservicedevice |-> DefaultDev,
                  eventservicegroup  |-> DefaultEventGroup]

(* an entry of the log or a broadcast node message; geo is the lat/lon/alt a
   node message carries *)
Output(kind, nem, node, pos) ==
    [kind |-> kind, nem |-> nem, node |-> node, pos |-> pos, geo |-> <<>>]

(* what one startup has done so far *)
FreshRun == [negotiated |-> FALSE, built |-> FALSE, docs |-> {}, evinit |-> FALSE,
             worker |-> FALSE, daemons |-> {}, installed |-> FALSE, summary |-> FALSE,
             early |-> FALSE, failed |-> FALSE, launches |-> <<>>]

NoCd == [nemid |-> 0, platformid |-> 0, start |-> 0, nemstart |-> 0, servers |-> <<>>,
         ret |-> FALSE]

-----------------------------------------------------------------------------
(* The session thread: facade calls *)

Idle == pc = "idle" /\ op = "none"

(* startup(), line 313: the call itself; its body follows step by step *)
StartupCall ==
    /\ Idle /\ opsLeft > 0
    /\ op' = "startup" /\ pc' = "reset"
    /\ opsLeft' = opsLeft - 1
    /\ run' = FreshRun
    /\ setupRet' = "none" /\ ret' = "none"
    /\ UNCHANGED <<outcomes, staticVars, portVars, config, emane_nodes, nemidmap, ifccounts,
                   nodeLock, ifcLock,
                   service, svcBreak, doeventloop, eventmonthread, cd, platformxmls,
                   sent, linkMsgs, linkSeen, peerVars, files, daemons, installed, workerVars>>

(* reset(), lines 367-377, called directly *)
ResetCall ==
    /\ Idle /\ opsLeft > 0
    /\ op' = "reset" /\ pc' = "reset"
    /\ opsLeft' = opsLeft - 1
    /\ UNCHANGED <<staticVars, portVars, config, emane_nodes, nemidmap, ifccounts, nodeLock, ifcLock,
                   service, svcBreak, doeventloop, eventmonthread, ret, setupRet, outcomes, cd,
                   platformxmls, run, sent, linkMsgs, linkSeen, peerVars, files, daemons,
                   installed, workerVars>>

(* session.get_config_item_int(name, default): the item as an integer, or
   the default when the session does not set it *)
get_config_item_default(item, default) == default
get_config_item_int(item, default) == IF item = NotSet THEN default ELSE item

(* reset(), lines 367-377: clear the registry under the registry lock, then
   read the two port counters again from the session's configuration *)
reset ==
    /\ pc = "reset" /\ nodeLock = "free"
    /\ emane_nodes' = {}
    /\ platformport' = get_config_item_int(portItems.emane_platform_port, DefaultPlatformPort)
    /\ transformport' = get_config_item_int(portItems.emane_transform_port, DefaultTransformPort)
    /\ IF op = "startup" THEN pc' = "setup_add" /\ op' = op
                         ELSE pc' = "idle" /\ op' = "none"
    /\ UNCHANGED <<staticVars, config, nemidmap, ifccounts, nodeLock, ifcLock,
                   service, svcBreak, doeventloop, eventmonthread, ret, setupRet, outcomes, cd,
                   platformxmls, run, opsLeft, sent, linkMsgs, linkSeen, peerVars, files,
                   daemons, installed, workerVars>>

(* add_node(), lines 181-191, as called from setup(), lines 267-271, for one
   EMANE node of the session; the session's objects are visited in dict order *)
add_node(k) ==
    /\ pc = "setup_add" /\ nodeLock = "free"
    /\ k \in DOMAIN topo /\ k \notin emane_nodes
    /\ emane_nodes' = emane_nodes \cup {k}
    /\ UNCHANGED <<staticVars, portVars, config, nemidmap, ifccounts, nodeLock, ifcLock,
                   service, svcBreak, doeventloop, eventmonthread, pc, op, ret, setupRet, outcomes, cd,
                   platformxmls, run, opsLeft, sent, linkMsgs, linkSeen, peerVars, files,
                   daemons, installed, workerVars>>

SetupAddNode == \E k \in EmaneIds : add_node(k)

(* add_node(), line 188: an id that is already a key of the registry *)
AddNodeNeverRaises(k, nodes) == FALSE
AddNodeRaises(k, nodes) == k \in nodes

(* add_node(), lines 181-191, called directly by the session *)
AddNodeCall ==
    /\ Idle /\ opsLeft > 0
    /\ op' = "add_node" /\ pc' = "add_node"
    /\ opsLeft' = opsLeft - 1
    /\ UNCHANGED <<staticVars, portVars, config, emane_nodes, nemidmap, ifccounts, nodeLock, ifcLock,
                   service, svcBreak, doeventloop, eventmonthread, ret, setupRet, outcomes, cd,
                   platformxmls, run, sent, linkMsgs, linkSeen, peerVars, files, daemons,
                   installed, workerVars>>

(* the body of that call for one EMANE node of the session: under the
   registry lock the KeyError is raised or the node is stored, and leaving the
   with-block releases the lock either way *)
AddNodeDirect ==
    /\ pc = "add_node" /\ nodeLock = "free"
    /\ \E k \in DOMAIN topo :
         IF AddNodeRaises(k, emane_nodes)
         THEN /\ ret' = "KeyError"
              /\ UNCHANGED emane_nodes
         ELSE /\ ret' = "None"
              /\ emane_nodes' = emane_nodes \cup {k}
    /\ pc' = "idle" /\ op' = "none"
    /\ UNCHANGED <<staticVars, portVars, config, nemidmap, ifccounts, nodeLock, ifcLock,
                   service, svcBreak, doeventloop, eventmonthread, setupRet, outcomes, cd,
                   platformxmls, run, opsLeft, sent, linkMsgs, linkSeen, peerVars, files,
                   daemons, installed, workerVars>>

(* startup(), line 323: only a setup that succeeded is followed by the build *)
StartupProceedsAlways(r) == TRUE
StartupProceeds(r) == r = SUCCESS

(* startup(), lines 326-330: what follows a successful setup *)
AfterSetupDaemonsFirst == "startdaemons"
AfterSetup == "buildplatformxml"

(* setup() returns r to startup(), lines 320-324 *)
SetupReturns(r) ==
    /\ setupRet' = r
    /\ outcomes' = Append(outcomes, r)
    /\ IF StartupProceeds(r)
       THEN /\ pc' = AfterSetup
            /\ UNCHANGED <<op, ret>>
       ELSE /\ ret' = r
            /\ pc' = "idle" /\ op' = "none"

(* setup(), lines 273-300: NOT_NEEDED without EMANE nodes; on the master the
   OTA and event-service devices must name control networks *)
SetupControlNet ==
    /\ pc = "setup_add"
    /\ DOMAIN topo \subseteq emane_nodes
    /\ IF emane_nodes = {}
       THEN SetupReturns(NOT_NEEDED)
       ELSE IF master /\ ( \/ ~ValidControlNet(config.otamanagerdevice)
                           \/ ( /\ config.eventservicedevice # config.otamanagerdevice
                                /\ ~ValidControlNet(config.eventservicedevice) ) )
       THEN SetupReturns(NOT_READY)
       ELSE /\ pc' = "checkdistributed"
            /\ UNCHANGED <<op, ret, setupRet, outcomes>>
    /\ UNCHANGED <<staticVars, portVars, config, emane_nodes, nemidmap, ifccounts, nodeLock, ifcLock,
                   service, svcBreak, doeventloop, eventmonthread, cd,
                   platformxmls, run, opsLeft, sent, linkMsgs, linkSeen, peerVars, files,
                   daemons, installed, workerVars>>

-----------------------------------------------------------------------------
(* Id negotiation: checkdistributed(), lines 412-470 *)

(* servers.sort(key=lambda x: x.name), line 450 *)
SortServers(servers) == SortedSeq(Range(servers))


(* lines 421-426: the instance negotiates as master only if its registry
   holds a node and the session is the master *)
AuthoritativeAlways(nodes, m) == TRUE
Authoritative(nodes, m) == IF nodes # {} THEN m ELSE FALSE

(* checkdistributed() returns into setup(), line 302, or to whoever called it
   by itself *)
AfterNegotiation == IF op = "checkdistributed" THEN "idle" ELSE "setup_tail"
OpAfterNegotiation == IF op = "checkdistributed" THEN "none" ELSE op

(* checkdistributed() called by itself, outside setup() *)
CheckDistributedCall ==
    /\ Idle /\ opsLeft > 0
    /\ op' = "checkdistributed" /\ pc' = "checkdistributed"
    /\ opsLeft' = opsLeft - 1
    /\ UNCHANGED <<staticVars, portVars, config, emane_nodes, nemidmap, ifccounts, nodeLock,
                   ifcLock, service, svcBreak, doeventloop, eventmonthread, ret, setupRet,
                   outcomes, cd, platformxmls, run, sent, linkMsgs, linkSeen, peerVars, files,
                   daemons, installed, workerVars>>

(* lines 421-449: a slave, or a manager without EMANE nodes, returns True; the
   master counts its interfaces and lists the servers of its EMANE nodes *)
CheckDistributedBegin ==
    /\ pc = "checkdistributed" /\ nodeLock = "free"
    /\ IF ~Authoritative(emane_nodes, master)
       THEN /\ cd' = [NoCd EXCEPT !.ret = TRUE]
            /\ pc' = AfterNegotiation /\ op' = OpAfterNegotiation
            /\ run' = [run EXCEPT !.negotiated = TRUE]
       ELSE /\ \E found \in Orders(UNION {nodeServers[k] : k \in emane_nodes}) :
                 cd' = [nemid      |-> config.nem_id_start + numnems,
                        platformid |-> config.platform_id_start,
                        start      |-> config.platform_id_start,
                        nemstart   |-> config.nem_id_start,
                        servers    |-> SortServers(found),
                        ret        |-> FALSE]
            /\ pc' = "cd_servers"
            /\ UNCHANGED <<run, op>>
    /\ UNCHANGED <<staticVars, portVars, config, emane_nodes, nemidmap, ifccounts, nodeLock, ifcLock,
                   service, svcBreak, doeventloop, eventmonthread, ret, setupRet, outcomes,
                   platformxmls, opsLeft, sent, linkMsgs, linkSeen, peerVars, files,
                   daemons, installed, workerVars>>

(* the configuration the master holds and sends for one peer, lines 458-462 *)
PushConfig(cfg, platformid, nemid) ==
    [cfg EXCEPT !.platform_id_start = platformid, !.nem_id_start = nemid]

(* servers skipped by the loop, lines 452-456 *)
SkipServerLocalOnly(server) == server = Localhost
SkipServer(server) == server = Localhost \/ ~srvSock[server]

(* the platform id given to the next peer, line 458 *)
NextPlatformIdSame(platformid) == platformid
NextPlatformId(platformid) == platformid + 1

(* one iteration of the loop over the servers, lines 451-464: a skipped
   server, or the push to a peer *)
CheckDistributedServer ==
    /\ pc = "cd_servers" /\ cd.servers # <<>>
    /\ LET server == Head(cd.servers) IN
       IF SkipServer(server)
       THEN /\ cd' = [cd EXCEPT !.servers = Tail(@)]
            /\ UNCHANGED <<config, sent, pc>>
       ELSE LET platformid == NextPlatformId(cd.platformid)
                cfg == PushConfig(config, platformid, cd.nemid)
            IN /\ config' = cfg
               /\ sent' = Append(sent, [to |-> server, values |-> cfg])
               /\ cd' = [cd EXCEPT !.platformid = platformid]
               /\ pc' = "cd_lock"
    /\ UNCHANGED <<staticVars, portVars, emane_nodes, nemidmap, ifccounts, nodeLock, ifcLock,
                   service, svcBreak, doeventloop, eventmonthread, op, ret, setupRet, outcomes,
                   platformxmls, run, opsLeft, linkMsgs, linkSeen, peerVars, files,
                   daemons, installed, workerVars>>

(* line 466: with self._ifccountslock *)
CheckDistributedLockCounts ==
    /\ pc = "cd_lock" /\ ifcLock = "free"
    /\ ifcLock' = "main"
    /\ pc' = "cd_count"
    /\ UNCHANGED <<staticVars, portVars, config, emane_nodes, nemidmap, ifccounts, nodeLock,
                   service, svcBreak, doeventloop, eventmonthread, op, ret, setupRet, outcomes, cd,
                   platformxmls, run, opsLeft, sent, linkMsgs, linkSeen, peerVars, files,
                   daemons, installed, workerVars>>

(* lines 467-468: what the counters hold for a server *)
CountedForNone(server, counts) == 0
CountedFor(server, counts) == IF server \in DOMAIN counts THEN counts[server] ELSE 0

(* lines 467-468: the next peer's ids start after the interfaces counted for
   this one; leaving the with-block releases the lock *)
CheckDistributedCount ==
    /\ pc = "cd_count"
    /\ LET server == Head(cd.servers)
       IN cd' = [cd EXCEPT !.servers = Tail(@),
                           !.nemid = @ + CountedFor(server, ifccounts)]
    /\ ifcLock' = "free"
    /\ pc' = "cd_servers"
    /\ UNCHANGED <<staticVars, portVars, config, emane_nodes, nemidmap, ifccounts, nodeLock,
                   service, svcBreak, doeventloop, eventmonthread, op, ret, setupRet, outcomes,
                   platformxmls, run, opsLeft, sent, linkMsgs, linkSeen, peerVars, files,
                   daemons, installed, workerVars>>

(* line 470: the master returns False *)
CheckDistributedEnd ==
    /\ pc = "cd_servers" /\ cd.servers = <<>>
    /\ pc' = AfterNegotiation /\ op' = OpAfterNegotiation
    /\ run' = [run EXCEPT !.negotiated = TRUE]
    /\ UNCHANGED <<staticVars, portVars, config, emane_nodes, nemidmap, ifccounts, nodeLock, ifcLock,
                   service, svcBreak, doeventloop, eventmonthread, ret, setupRet, outcomes, cd,
                   platformxmls, opsLeft, sent, linkMsgs, linkSeen, peerVars, files,
                   daemons, installed, workerVars>>

(* setup(), lines 302-311, and startup(), lines 320-324: a slave that still
   holds the default platform id is not ready *)
SlaveNotReadyNever(deferred, value) == FALSE
SlaveNotReady(deferred, value) == deferred /\ value = DefaultPlatformIdStart

SetupFinish ==
    /\ pc = "setup_tail"
    /\ IF SlaveNotReady(cd.ret, config.platform_id_start)
       THEN SetupReturns(NOT_READY)
       ELSE SetupReturns(SUCCESS)
    /\ UNCHANGED <<staticVars, portVars, config, emane_nodes, nemidmap, ifccounts, nodeLock, ifcLock,
                   service, svcBreak, doeventloop, eventmonthread, cd,
                   platformxmls, run, opsLeft, sent, linkMsgs, linkSeen, peerVars, files,
                   daemons, installed, workerVars>>

-----------------------------------------------------------------------------
(* Platform documents: buildplatformxml(), lines 641-680 *)

(* the NEMs of the registered EMANE nodes *)
RegisteredNems == {<<k, n>> \in AllNems : k \in emane_nodes /\ n \in netifs(k)}

(* lines 649-652: EMANE nodes in ascending id order, the netifs of one EMANE
   node in ascending owner id order; netifs of the same owner keep the
   iteration order of the dict built by buildplatformxmlentry, which depends
   on object hashes and is not determined *)
BuildOrdersAny(nems) == Orders(nems)
BuildOrders(nems) ==
    {f \in Orders(nems) :
        \A i, j \in DOMAIN f :
            i < j => \/ f[i][1] < f[j][1]
                     \/ f[i][1] = f[j][1] /\ f[i][2].node <= f[j][2].node}

(* the id given to the i-th interface visited: nemid starts at start and is
   incremented once per interface, lines 645, 654, 674 *)
NemIdAt(start, i) == start + i - 1

(* the hardware address given to the interface numbered nemid, lines 671-673:
   the prefix 02:02, two zero octets, then (nemid >> 8) & 0xFF and
   nemid & 0xFF; an address is the sequence of its six octets *)
HwAddr(nemid) == <<2, 2, 0, 0, (nemid \div 256) % 256, nemid % 256>>

(* newplatformxmldoc(), lines 614-639: overrides are stored in the manager's
   configuration before the options are copied into the document *)
NewPlatformXmlDoc(cfg, otadev, eventdev) ==
    LET c1 == IF otadev # "" THEN [cfg EXCEPT !.otamanagerdevice = otadev] ELSE cfg
        c2 == IF eventdev # "" THEN [c1 EXCEPT !.eventservicedevice = eventdev] ELSE c1
    IN [cfg |-> c2,
        doc |-> [nems               |-> {},
                 otamanagerdevice   |-> c2.otamanagerdevice,
                 eventservicedevice |-> c2.eventservicedevice,
                 eventservicegroup  |-> c2.eventservicegroup]]

(* the document key of a netif, lines 655-662 *)
DocKeyPerNode(netif) == netif.node
DocKey(netif) == IF netif.transport_type = "raw" THEN HostKey ELSE netif.node

(* the loop body of lines 652-674 applied to order[i..]; st = [cfg, xmls] *)
RECURSIVE BuildEntries(_, _, _, _)
BuildEntries(order, i, start, st) ==
    IF i > Len(order) THEN st
    ELSE LET netif == order[i][2]
             key   == DocKey(netif)
             dev   == IF netif.transport_type = "raw" THEN BridgeName ELSE ""
             new   == NewPlatformXmlDoc(st.cfg, dev, dev)
             isNew == key \notin DOMAIN st.xmls
             doc0  == IF isNew THEN new.doc ELSE st.xmls[key]
             doc1  == [doc0 EXCEPT !.nems = @ \cup {NemIdAt(start, i)}]
         IN BuildEntries(order, i + 1, start,
                [cfg  |-> IF isNew THEN new.cfg ELSE st.cfg,
                 xmls |-> [x \in DOMAIN st.xmls \cup {key} |->
                              IF x = key THEN doc1 ELSE st.xmls[x]]])

(* startup() line 327 takes the registry lock; buildplatformxml() lines 645-674 *)
BuildPlatformXml ==
    /\ pc = "buildplatformxml" /\ nodeLock = "free"
    /\ nodeLock' = "main"
    /\ \E order \in BuildOrders(RegisteredNems) :
         LET out == BuildEntries(order, 1, config.nem_id_start,
                                 [cfg |-> config, xmls |-> <<>>])
         IN /\ nemidmap' = [x \in AllNems |->
                              IF \E i \in DOMAIN order : order[i] = x
                              THEN NemIdAt(config.nem_id_start,
                                           CHOOSE i \in DOMAIN order : order[i] = x)
                              ELSE nemidmap[x]]
            /\ config' = out.cfg
            /\ platformxmls' = out.xmls
            /\ pc' = IF DOMAIN out.xmls = {} THEN "buildnemxml" ELSE "xmlwrite"
    /\ run' = [run EXCEPT !.built = TRUE]
    /\ UNCHANGED <<staticVars, portVars, emane_nodes, ifccounts, ifcLock,
                   service, svcBreak, doeventloop, eventmonthread, op, ret, setupRet, outcomes, cd,
                   opsLeft, sent, linkMsgs, linkSeen, peerVars, files,
                   daemons, installed, workerVars>>

(* sorted(platformxmls.keys()), line 676: the integer keys, then "host" *)
WriteOrder(keys) == SortedSeq(keys \ {HostKey})
                    \o (IF HostKey \in keys THEN <<HostKey>> ELSE <<>>)

(* xmlwrite() of one platform document, lines 676-680 *)
XmlWritePlatform ==
    /\ pc = "xmlwrite"
    /\ LET left == DOMAIN platformxmls \ run.docs
           key  == Head(WriteOrder(left))
       IN /\ left # {}
          /\ files' = [files EXCEPT !.platform =
                          [x \in DOMAIN @ \cup {key} |->
                              IF x = key THEN platformxmls[key] ELSE @[x]]]
          /\ run' = [run EXCEPT !.docs = @ \cup {key}]
          /\ pc' = IF left = {key} THEN "buildnemxml" ELSE "xmlwrite"
    /\ UNCHANGED <<staticVars, portVars, config, emane_nodes, nemidmap, ifccounts, nodeLock, ifcLock,
                   service, svcBreak, doeventloop, eventmonthread, op, ret, setupRet, outcomes, cd,
                   platformxmls, opsLeft, sent, linkMsgs, linkSeen, peerVars,
                   daemons, installed, workerVars>>

(* buildnemxml(), lines 682-689: the per-node NEM/MAC/PHY documents *)
BuildNemXml ==
    /\ pc = "buildnemxml"
    /\ files' = [files EXCEPT !.nemxml = emane_nodes]
    /\ pc' = "buildeventservicexml"
    /\ UNCHANGED <<staticVars, portVars, config, emane_nodes, nemidmap, ifccounts, nodeLock, ifcLock,
                   service, svcBreak, doeventloop, eventmonthread, op, ret, setupRet, outcomes, cd,
                   platformxmls, run, opsLeft, sent, linkMsgs, linkSeen, peerVars,
                   daemons, installed, workerVars>>

-----------------------------------------------------------------------------
(* Event service: deleteeventservice / initeventservice, lines 127-171 *)

CustomEventGroup == "224.1.2.9:45703"
BadEventGroup    == "224.1.2.8"
(* get_config("eventservicegroup").split(":") yields two parts *)
ParseableGroup(g) == g \in {DefaultEventGroup, CustomEventGroup}

(* deleteeventservice(), lines 127-136, as seen by workers inside nextEvent:
   the object they use is closed under them *)
DeletedUnder(t) == IF wsvc[t] = "cur"
                   THEN (IF svcBreak THEN "broken" ELSE "closed")
                   ELSE wsvc[t]

(* initeventservice() past the split of line 149: the old service is deleted,
   and a new one exists iff the device names a control network and the
   EventService constructor did not raise *)
InitEventServiceEffect(created) ==
    /\ service' = IF ValidControlNet(config.eventservicedevice) /\ created
                  THEN "open" ELSE "none"
    /\ svcBreak' = FALSE
    /\ wsvc' = [t \in Threads |-> DeletedUnder(t)]

(* an exception leaves startup: the with-block of line 327 releases the lock *)
LockAfterRaiseHeld == "main"
LockAfterRaise == "free"

StartupRaise ==
    /\ nodeLock' = LockAfterRaise
    /\ ret' = "ERROR"
    /\ pc' = "idle" /\ op' = "none"

(* buildeventservicexml(), lines 713-745 *)
BuildEventServiceXml ==
    /\ pc = "buildeventservicexml"
    /\ LET need_xml == \/ config.eventservicegroup # DefaultEventGroup
                       \/ config.eventservicedevice # DefaultDev
       IN IF need_xml /\ ~ParseableGroup(config.eventservicegroup)
          THEN UNCHANGED <<service, svcBreak, wsvc, files, run>>
          ELSE /\ \E created \in BOOLEAN : InitEventServiceEffect(created)
               /\ files' = [files EXCEPT !.eventxml = @ \/ need_xml]
               /\ run' = [run EXCEPT !.evinit = TRUE]
    /\ pc' = "initeventservice"
    /\ UNCHANGED <<staticVars, portVars, config, emane_nodes, nemidmap, ifccounts, nodeLock, ifcLock,
                   doeventloop, eventmonthread, op, ret, setupRet, outcomes, cd,
                   platformxmls, opsLeft, sent, linkMsgs, linkSeen, peerVars,
                   daemons, installed, wpc, wscan, wev, touched, position, outputs, eventsLeft>>

(* startup() line 329: initeventservice() *)
InitEventService ==
    /\ pc = "initeventservice"
    /\ IF ~ParseableGroup(config.eventservicegroup)
       THEN /\ service' = "none" /\ svcBreak' = FALSE
            /\ wsvc' = [t \in Threads |-> DeletedUnder(t)]
            /\ StartupRaise
            /\ UNCHANGED run
       ELSE /\ \E created \in BOOLEAN : InitEventServiceEffect(created)
            /\ run' = [run EXCEPT !.evinit = TRUE]
            /\ pc' = "starteventmonitor"
            /\ UNCHANGED <<nodeLock, ret, op>>
    /\ UNCHANGED <<staticVars, portVars, config, emane_nodes, nemidmap, ifccounts, ifcLock,
                   doeventloop, eventmonthread, setupRet, outcomes, cd,
                   platformxmls, opsLeft, sent, linkMsgs, linkSeen, peerVars, files,
                   daemons, installed, wpc, wscan, wev, touched, position, outputs, eventsLeft>>

(* a thread id never used before *)
FreshThreads == {t \in Threads : wpc[t] = "unborn"}

(* starteventmonitor(), lines 880-888: the entry guard *)
MonitorStartsAlways == TRUE
MonitorStarts == monitorOn /\ service # "none"

(* starteventmonitor(), lines 875-892 *)
StartEventMonitor ==
    /\ pc = "starteventmonitor"
    /\ IF MonitorStarts
       THEN /\ FreshThreads # {}
            /\ LET t == Min(FreshThreads)
               IN /\ doeventloop' = TRUE
                  /\ eventmonthread' = t
                  /\ wpc' = [wpc EXCEPT ![t] = "start"]
            /\ run' = [run EXCEPT !.worker = TRUE]
       ELSE UNCHANGED <<doeventloop, eventmonthread, wpc, run>>
    /\ pc' = IF numnems > 0 THEN "startdaemons" ELSE "finish"
    /\ UNCHANGED <<staticVars, portVars, config, emane_nodes, nemidmap, ifccounts, nodeLock, ifcLock,
                   service, svcBreak, op, ret, setupRet, outcomes, cd,
                   platformxmls, opsLeft, sent, linkMsgs, linkSeen, peerVars, files,
                   daemons, installed, wsvc, wscan, wev, touched, position, outputs, eventsLeft>>

-----------------------------------------------------------------------------
(* Daemons and interfaces *)

(* hasattr(node, "transport_type") and node.transport_type == "raw", line 774 *)
RawNode(n) == n \in RawOwners

(* the daemon a node asks for: its own, or the host-scoped one *)
DaemonKey(n) == IF RawNode(n) THEN HostKey ELSE n

(* the exit status of the commands that launch the daemon of key k *)
ExitStatus(k) == IF k \in launchFails THEN 1 ELSE 0

(* check_cmd(args) raises CoreCommandError on a non-zero exit status *)
CheckCmdNeverRaises(status) == FALSE
CheckCmdRaises(status) == status # 0

(* how often key k was handed to a launch command in this startup *)
Launches(k) == Cardinality({i \in DOMAIN run.launches : run.launches[i] = k})

(* the loop of line 773 runs over the set getnodes() returns: a node it has
   been through does not come again *)
PendingPerNetif(n) ==
    Launches(n) < Cardinality({x \in RegisteredNems : x[2].node = n})
Pending(n) == n \notin run.daemons

(* startdaemons(), lines 773-804: one pass of the loop over getnodes(); the
   daemon of a non-raw node is launched, a raw node only marks the host
   daemon.  Nothing in startdaemons() or startup() catches what check_cmd
   raises. *)
StartDaemon ==
    /\ pc = "startdaemons"
    /\ \E n \in getnodes :
         /\ ~RawNode(n) /\ Pending(n)
         /\ IF CheckCmdRaises(ExitStatus(n))
            THEN /\ StartupRaise
                 /\ run' = [run EXCEPT !.failed = TRUE, !.launches = Append(@, n)]
                 /\ UNCHANGED daemons
            ELSE /\ daemons' = IF ExitStatus(n) = 0 THEN daemons \cup {n} ELSE daemons
                 /\ run' = [run EXCEPT !.daemons = @ \cup {n},
                                       !.failed = @ \/ ExitStatus(n) # 0,
                                       !.launches = Append(@, n)]
                 /\ UNCHANGED <<nodeLock, pc, op, ret>>
    /\ UNCHANGED <<staticVars, portVars, config, emane_nodes, nemidmap, ifccounts, ifcLock,
                   service, svcBreak, doeventloop, eventmonthread, setupRet, outcomes, cd,
                   platformxmls, opsLeft, sent, linkMsgs, linkSeen, peerVars, files,
                   installed, workerVars>>

(* startdaemons(), lines 806-813: after the loop, the host-scoped daemon if
   a raw node was seen *)
StartHostDaemon ==
    /\ pc = "startdaemons"
    /\ \A n \in getnodes : RawNode(n) \/ ~Pending(n)
    /\ LET run_emane_on_host == \E n \in getnodes : RawNode(n)
       IN IF run_emane_on_host /\ CheckCmdRaises(ExitStatus(HostKey))
          THEN /\ StartupRaise
               /\ run' = [run EXCEPT !.failed = TRUE, !.launches = Append(@, HostKey)]
               /\ UNCHANGED daemons
          ELSE /\ daemons' = IF run_emane_on_host /\ ExitStatus(HostKey) = 0
                             THEN daemons \cup {HostKey} ELSE daemons
               /\ run' = IF run_emane_on_host
                         THEN [run EXCEPT !.daemons = @ \cup {HostKey},
                                          !.failed = @ \/ ExitStatus(HostKey) # 0,
                                          !.launches = Append(@, HostKey)]
                         ELSE run
               /\ pc' = "installnetifs"
               /\ UNCHANGED <<nodeLock, op, ret>>
    /\ UNCHANGED <<staticVars, portVars, config, emane_nodes, nemidmap, ifccounts, ifcLock,
                   service, svcBreak, doeventloop, eventmonthread, setupRet, outcomes, cd,
                   platformxmls, opsLeft, sent, linkMsgs, linkSeen, peerVars, files,
                   installed, workerVars>>

(* installnetifs(), lines 838-846 *)
installnetifs ==
    /\ pc = "installnetifs"
    /\ installed' = emane_nodes
    /\ run' = [run EXCEPT !.installed = TRUE]
    /\ pc' = "finish"
    /\ UNCHANGED <<staticVars, portVars, config, emane_nodes, nemidmap, ifccounts, nodeLock, ifcLock,
                   service, svcBreak, doeventloop, eventmonthread, op, ret, setupRet, outcomes, cd,
                   platformxmls, opsLeft, sent, linkMsgs, linkSeen, peerVars, files,
                   daemons, workerVars>>

(* line 338: the line of the summary file for interface x: node, interface,
   emane_node.getnemid(netif) *)
SummaryLineFirstId(x) == <<x[2].node, x[2].netindex, config.nem_id_start>>
SummaryLine(x) == <<x[2].node, x[2].netindex, nemidmap[x]>>

(* startup(), lines 336-349: collect (owner, netindex, NEM id), release the
   lock, write the summary file if there is a line to write *)
StartupFinish ==
    /\ pc = "finish" /\ nodeLock = "main"
    /\ LET nems == {SummaryLine(x) : x \in RegisteredNems}
       IN /\ files' = IF nems # {} THEN [files EXCEPT !.emane_nems = nems] ELSE files
          /\ run' = [run EXCEPT !.summary = nems # {}]
    /\ nodeLock' = "free"
    /\ ret' = SUCCESS
    /\ pc' = "idle" /\ op' = "none"
    /\ UNCHANGED <<staticVars, portVars, config, emane_nodes, nemidmap, ifccounts, ifcLock,
                   service, svcBreak, doeventloop, eventmonthread, setupRet, outcomes, cd,
                   platformxmls, opsLeft, sent, linkMsgs, linkSeen, peerVars,
                   daemons, installed, workerVars>>

-----------------------------------------------------------------------------
(* shutdown(), lines 379-392, and stopeventmonitor(), lines 894-908 *)

ShutdownCall ==
    /\ Idle /\ opsLeft > 0
    /\ op' = "shutdown" /\ pc' = "sd_clear"
    /\ opsLeft' = opsLeft - 1
    /\ UNCHANGED <<staticVars, portVars, config, emane_nodes, nemidmap, ifccounts, nodeLock, ifcLock,
                   service, svcBreak, doeventloop, eventmonthread, ret, setupRet, outcomes, cd,
                   platformxmls, run, sent, linkMsgs, linkSeen, peerVars, files, daemons,
                   installed, workerVars>>

(* line 383: with self._ifccountslock *)
ShutdownLockCounts ==
    /\ pc = "sd_clear" /\ ifcLock = "free"
    /\ ifcLock' = "main"
    /\ pc' = "sd_counts"
    /\ UNCHANGED <<staticVars, portVars, config, emane_nodes, nemidmap, ifccounts, nodeLock,
                   service, svcBreak, doeventloop, eventmonthread, op, ret, setupRet, outcomes, cd,
                   platformxmls, run, opsLeft, sent, linkMsgs, linkSeen, peerVars, files,
                   daemons, installed, workerVars>>

(* the owner of the interface-count lock once the with-block of lines 383-384
   is left *)
CountsLockKept == "main"
CountsLockReleased == "free"

(* line 384: the counters are cleared and the with-block is left *)
ShutdownClearCounts ==
    /\ pc = "sd_counts"
    /\ ifccounts' = <<>>
    /\ linkSeen' = [s \in ServerNames |-> 0]
    /\ ifcLock' = CountsLockReleased
    /\ pc' = "sd_registry"
    /\ UNCHANGED <<staticVars, portVars, config, emane_nodes, nemidmap, nodeLock,
                   service, svcBreak, doeventloop, eventmonthread, op, ret, setupRet, outcomes, cd,
                   platformxmls, run, opsLeft, sent, linkMsgs, peerVars, files,
                   daemons, installed, workerVars>>

(* lines 386-388: take the registry lock; with an empty registry nothing else
   is done *)
ShutdownClear ==
    /\ pc = "sd_registry" /\ nodeLock = "free"
    /\ IF emane_nodes = {}
       THEN pc' = "idle" /\ op' = "none" /\ UNCHANGED nodeLock
       ELSE pc' = "deinstallnetifs" /\ nodeLock' = "main" /\ UNCHANGED op
    /\ UNCHANGED <<staticVars, portVars, config, emane_nodes, nemidmap, ifccounts, ifcLock,
                   service, svcBreak, doeventloop, eventmonthread, ret, setupRet, outcomes, cd,
                   platformxmls, run, opsLeft, sent, linkMsgs, linkSeen, peerVars, files,
                   daemons, installed, workerVars>>

(* deinstallnetifs(), lines 848-854 *)
deinstallnetifs ==
    /\ pc = "deinstallnetifs"
    /\ installed' = {}
    /\ pc' = "stopdaemons"
    /\ UNCHANGED <<staticVars, portVars, config, emane_nodes, nemidmap, ifccounts, nodeLock, ifcLock,
                   service, svcBreak, doeventloop, eventmonthread, op, ret, setupRet, outcomes, cd,
                   platformxmls, run, opsLeft, sent, linkMsgs, linkSeen, peerVars, files,
                   daemons, workerVars>>

(* the exit status of "killall -q emane" for daemon key k: non-zero when no
   daemon of that key is running *)
KillStatus(k) == IF k \in daemons THEN 0 ELSE 1

(* lines 831-836: the CoreCommandError of the host kill commands is caught *)
HostKillEscapesUncaught(status) == CheckCmdRaises(status)
HostKillEscapes(status) == FALSE

(* stopdaemons(), lines 815-836: killall emane on every node of getnodes()
   with node.cmd(wait=False), whose status is not looked at, and, with a raw
   node, on the host with check_cmd inside a try block that logs *)
stopdaemons ==
    /\ pc = "stopdaemons"
    /\ LET stop_emane_on_host == \E n \in getnodes : RawNode(n)
           status == KillStatus(HostKey)
       IN IF stop_emane_on_host /\ HostKillEscapes(status)
          THEN /\ daemons' = daemons \ {n \in getnodes : ~RawNode(n)}
               /\ nodeLock' = "free"
               /\ pc' = "idle" /\ op' = "none"
               /\ UNCHANGED outputs
          ELSE /\ daemons' = daemons \ {DaemonKey(n) : n \in getnodes}
               /\ outputs' = IF stop_emane_on_host /\ CheckCmdRaises(status)
                             THEN Append(outputs, Output("exception_stop", 0, HostKey, <<>>))
                             ELSE outputs
               /\ pc' = "stop_flag"
               /\ UNCHANGED <<nodeLock, op>>
    /\ UNCHANGED <<staticVars, portVars, config, emane_nodes, nemidmap, ifccounts, ifcLock,
                   service, svcBreak, doeventloop, eventmonthread, ret, setupRet, outcomes, cd,
                   platformxmls, run, opsLeft, sent, linkMsgs, linkSeen, peerVars, files,
                   installed, wpc, wsvc, wscan, wev, touched, position, eventsLeft>>

(* stopeventmonitor() line 898 *)
StopClearFlag ==
    /\ pc = "stop_flag"
    /\ doeventloop' = FALSE
    /\ pc' = IF service # "none" THEN "stop_break" ELSE "stop_join"
    /\ UNCHANGED <<staticVars, portVars, config, emane_nodes, nemidmap, ifccounts, nodeLock, ifcLock,
                   service, svcBreak, eventmonthread, op, ret, setupRet, outcomes, cd,
                   platformxmls, run, opsLeft, sent, linkMsgs, linkSeen, peerVars, files,
                   daemons, installed, workerVars>>

(* stopeventmonitor() line 900: self.service.breakloop() *)
StopBreakLoop ==
    /\ pc = "stop_break"
    /\ svcBreak' = TRUE
    /\ pc' = "stop_delete"
    /\ UNCHANGED <<staticVars, portVars, config, emane_nodes, nemidmap, ifccounts, nodeLock, ifcLock,
                   service, doeventloop, eventmonthread, op, ret, setupRet, outcomes, cd,
                   platformxmls, run, opsLeft, sent, linkMsgs, linkSeen, peerVars, files,
                   daemons, installed, workerVars>>

(* stopeventmonitor() line 902: initeventservice(shutdown=True) closes the
   descriptors and clears self.service *)
StopDeleteService ==
    /\ pc = "stop_delete"
    /\ service' = "none" /\ svcBreak' = FALSE
    /\ wsvc' = [t \in Threads |-> DeletedUnder(t)]
    /\ pc' = "stop_join"
    /\ UNCHANGED <<staticVars, portVars, config, emane_nodes, nemidmap, ifccounts, nodeLock, ifcLock,
                   doeventloop, eventmonthread, op, ret, setupRet, outcomes, cd,
                   platformxmls, run, opsLeft, sent, linkMsgs, linkSeen, peerVars, files,
                   daemons, installed, wpc, wscan, wev, touched, position, outputs, eventsLeft>>

(* the worker threads that have not left eventmonitorloop *)
Alive(t) == wpc[t] \notin {"unborn", "exited"}

(* Thread.join() after Thread._Thread__stop(), lines 906-907: __stop marks the
   Thread object as stopped without touching the running thread, so the join
   that follows returns at once *)
JoinReturnsOnExit(t) == wpc[t] = "exited"
JoinReturns(t) == TRUE

(* stopeventmonitor() lines 904-908, then shutdown returns and the
   with-block of line 386 releases the registry lock *)
StopJoin ==
    /\ pc = "stop_join"
    /\ eventmonthread # 0 => JoinReturns(eventmonthread)
    /\ eventmonthread' = 0
    /\ nodeLock' = "free"
    /\ pc' = "idle" /\ op' = "none"
    /\ UNCHANGED <<staticVars, portVars, config, emane_nodes, nemidmap, ifccounts, ifcLock,
                   service, svcBreak, doeventloop, ret, setupRet, outcomes, cd,
                   platformxmls, run, opsLeft, sent, linkMsgs, linkSeen, peerVars, files,
                   daemons, installed, workerVars>>

(* poststartup(), lines 351-365: under the registry lock the positions of all
   NEMs are retransmitted; nothing the manager holds changes *)
poststartup ==
    /\ Idle /\ opsLeft > 0 /\ nodeLock = "free"
    /\ opsLeft' = opsLeft - 1
    /\ UNCHANGED <<staticVars, portVars, config, emane_nodes, nemidmap, ifccounts, nodeLock, ifcLock,
                   service, svcBreak, doeventloop, eventmonthread, pc, op, ret, setupRet, outcomes, cd,
                   platformxmls, run, sent, linkMsgs, linkSeen, peerVars, files, daemons,
                   installed, workerVars>>

-----------------------------------------------------------------------------
(* The broker thread *)

(* line 400 and line 403: the notifications that handledistributed counts *)
Qualifies(m) == m.add /\ m.net /\ m.servers # {}

(* lines 407-410: the counter of a server after one more interface *)
CountedFirst(counts, s) == 1
Counted(counts, s) == IF s \in DOMAIN counts THEN counts[s] + 1 ELSE 1

(* the notifications left to handle when server s of notification m is done:
   the loop of line 405 goes on with the other servers of m *)
Remaining(m, s) ==
    LET rest == [m EXCEPT !.servers = @ \ {s}] IN
    [x \in DOMAIN linkMsgs |->
        IF x = m /\ x = rest THEN linkMsgs[x]
        ELSE IF x = m THEN linkMsgs[x] - 1
        ELSE IF x = rest /\ m.servers # {s} THEN linkMsgs[x] + 1
        ELSE linkMsgs[x]]

(* handledistributed(), lines 394-410: a link-add notification whose first
   endpoint is a network node counts one interface for every server of the
   second endpoint, taking the interface-count lock once per server.
   m = [add, net, servers] *)
handledistributed(m) ==
    /\ ifcLock = "broker"
    /\ ifcLock' = "free"
    /\ Qualifies(m)
    /\ \E s \in m.servers :
         /\ ifccounts' = [x \in DOMAIN ifccounts \cup {s} |->
                            IF x = s THEN Counted(ifccounts, s) ELSE ifccounts[x]]
         /\ linkSeen' = [linkSeen EXCEPT ![s] = @ + 1]
         /\ linkMsgs' = Remaining(m, s)

(* line 406: the broker thread takes the interface-count lock for a
   notification that qualifies *)
HandleDistributedLock ==
    /\ ifcLock = "free"
    /\ \E m \in DOMAIN linkMsgs : linkMsgs[m] > 0 /\ Qualifies(m)
    /\ ifcLock' = "broker"
    /\ UNCHANGED <<staticVars, portVars, config, emane_nodes, nemidmap, ifccounts, nodeLock,
                   service, svcBreak, doeventloop, eventmonthread, pc, op, ret, setupRet, outcomes, cd,
                   platformxmls, run, opsLeft, sent, linkMsgs, linkSeen, peerVars, files, daemons,
                   installed, workerVars>>

(* lines 407-410: the count is updated and the lock released *)
HandleDistributed ==
    /\ \E m \in DOMAIN linkMsgs :
         /\ linkMsgs[m] > 0
         /\ handledistributed(m)
    /\ UNCHANGED <<staticVars, portVars, config, emane_nodes, nemidmap, nodeLock,
                   service, svcBreak, doeventloop, eventmonthread, pc, op, ret, setupRet, outcomes, cd,
                   platformxmls, run, opsLeft, sent, peerVars, files, daemons,
                   installed, workerVars>>

(* lines 400 and 403 not taken: a notification that is not a link-add, whose
   first endpoint is no network node, or whose second endpoint has no server,
   is dropped without taking the lock *)
HandleDistributedIgnore ==
    /\ \E m \in DOMAIN linkMsgs :
         /\ linkMsgs[m] > 0
         /\ ~Qualifies(m)
         /\ linkMsgs' = [linkMsgs EXCEPT ![m] = @ - 1]
    /\ UNCHANGED <<staticVars, portVars, config, emane_nodes, nemidmap, ifccounts, nodeLock, ifcLock,
                   service, svcBreak, doeventloop, eventmonthread, pc, op, ret, setupRet, outcomes, cd,
                   platformxmls, run, opsLeft, sent, linkSeen, peerVars, files, daemons,
                   installed, workerVars>>

(* a configuration update pushed by the master reaches this (slave) manager
   and replaces the values it holds *)
ConfigPush ==
    /\ ~master
    /\ config.platform_id_start = DefaultPlatformIdStart
    /\ config.nem_id_start = DefaultNemIdStart
    /\ \E p \in {DefaultPlatformIdStart, DefaultPlatformIdStart + 1} :
         config' = [config EXCEPT !.platform_id_start = p,
                                  !.nem_id_start = DefaultNemIdStart + 1]
    /\ UNCHANGED <<staticVars, portVars, emane_nodes, nemidmap, ifccounts, nodeLock, ifcLock,
                   service, svcBreak, doeventloop, eventmonthread, pc, op, ret, setupRet, outcomes, cd,
                   platformxmls, run, opsLeft, sent, linkMsgs, linkSeen, peerVars, files,
                   daemons, installed, workerVars>>

-----------------------------------------------------------------------------
(* Peer servers *)

(* the peer applies the next configuration message addressed to it *)
PeerReceive ==
    /\ \E i \in DOMAIN sent :
         LET p == sent[i].to
         IN /\ i > peerCfg[p].idx
            /\ \A j \in DOMAIN sent : (j < i /\ sent[j].to = p) => j <= peerCfg[p].idx
            /\ peerCfg' = [peerCfg EXCEPT ![p] = [idx |-> i, values |-> sent[i].values]]
    /\ UNCHANGED <<staticVars, portVars, config, emane_nodes, nemidmap, ifccounts, nodeLock, ifcLock,
                   service, svcBreak, doeventloop, eventmonthread, pc, op, ret, setupRet, outcomes, cd,
                   platformxmls, run, opsLeft, sent, linkMsgs, linkSeen, peerNems, peerBuilt,
                   files, daemons, installed, workerVars>>

(* the peer runs its own startup: its setup is ready once the platform id it
   holds differs from the default, and its buildplatformxml numbers its
   interfaces from the nem_id_start it holds *)
PeerBuild ==
    /\ \E p \in PeerNames :
         /\ peerCfg[p].idx > 0
         /\ ~SlaveNotReady(TRUE, peerCfg[p].values.platform_id_start)
         /\ peerNems' = [peerNems EXCEPT ![p] =
                {NemIdAt(peerCfg[p].values.nem_id_start, i) : i \in 1..peerIfcs[p]}]
         /\ peerBuilt' = [peerBuilt EXCEPT ![p] = peerCfg[p].idx]
         /\ peerBuilt[p] # peerCfg[p].idx
    /\ UNCHANGED <<staticVars, portVars, config, emane_nodes, nemidmap, ifccounts, nodeLock, ifcLock,
                   service, svcBreak, doeventloop, eventmonthread, pc, op, ret, setupRet, outcomes, cd,
                   platformxmls, run, opsLeft, sent, linkMsgs, linkSeen, peerCfg,
                   files, daemons, installed, workerVars>>

-----------------------------------------------------------------------------
(* The worker threads: eventmonitorloop(), lines 910-929 *)

NoScan == [left |-> {}, seen |-> {}]

(* the position of a node nothing has placed yet *)
NoPosition == <<>>

WorkerFrame == UNCHANGED <<staticVars, portVars, config, emane_nodes, nemidmap, ifccounts, nodeLock,
                           ifcLock, service, svcBreak, doeventloop, eventmonthread, pc, op,
                           ret, setupRet, outcomes, cd, platformxmls, run, opsLeft, sent, linkMsgs,
                           linkSeen, peerVars, files, daemons, installed>>

(* lines 914-915: return at once without a service *)
WorkerStart(t) ==
    /\ wpc[t] = "start"
    /\ wpc' = [wpc EXCEPT ![t] = IF service = "none" THEN "exited" ELSE "loop"]
    /\ UNCHANGED <<wsvc, wscan, wev, touched, position, outputs, eventsLeft>>
    /\ WorkerFrame

(* line 917: while self.doeventloop is True *)
WorkerLoop(t) ==
    /\ wpc[t] = "loop"
    /\ wpc' = [wpc EXCEPT ![t] = IF doeventloop THEN "call" ELSE "exited"]
    /\ UNCHANGED <<wsvc, wscan, wev, touched, position, outputs, eventsLeft>>
    /\ WorkerFrame

(* line 918: self.service.nextEvent() is entered; with self.service cleared
   the attribute access raises and the thread ends *)
WorkerCall(t) ==
    /\ wpc[t] = "call"
    /\ IF service = "none"
       THEN /\ wpc' = [wpc EXCEPT ![t] = "exited"]
            /\ touched' = TRUE
            /\ UNCHANGED wsvc
       ELSE /\ wpc' = [wpc EXCEPT ![t] = "recv"]
            /\ wsvc' = [wsvc EXCEPT ![t] = "cur"]
            /\ UNCHANGED touched
    /\ UNCHANGED <<wscan, wev, position, outputs, eventsLeft>>
    /\ WorkerFrame

(* nextEvent() returns a batch of location events *)
WorkerRecvEvent(t) ==
    /\ wpc[t] = "recv" /\ wsvc[t] = "cur" /\ eventsLeft > 0
    /\ \E batch \in eventKinds : wev' = [wev EXCEPT ![t] = batch]
    /\ eventsLeft' = eventsLeft - 1
    /\ wpc' = [wpc EXCEPT ![t] = "check"]
    /\ wsvc' = [wsvc EXCEPT ![t] = "none"]
    /\ UNCHANGED <<wscan, touched, position, outputs>>
    /\ WorkerFrame

(* nextEvent() returns an empty batch because breakloop() was called *)
WorkerRecvBreak(t) ==
    /\ wpc[t] = "recv"
    /\ \/ wsvc[t] = "cur" /\ svcBreak /\ UNCHANGED touched
       \/ wsvc[t] = "broken" /\ touched' = TRUE
    /\ wev' = [wev EXCEPT ![t] = <<>>]
    /\ wpc' = [wpc EXCEPT ![t] = "check"]
    /\ wsvc' = [wsvc EXCEPT ![t] = "none"]
    /\ UNCHANGED <<wscan, position, outputs, eventsLeft>>
    /\ WorkerFrame

(* nextEvent() on descriptors closed by deleteeventservice(): the call raises
   and the thread ends (it may as well stay blocked for ever, which is the
   behaviour in which this action is never taken) *)
WorkerRecvClosed(t) ==
    /\ wpc[t] = "recv" /\ wsvc[t] \in {"closed", "broken"}
    /\ touched' = TRUE
    /\ wpc' = [wpc EXCEPT ![t] = "exited"]
    /\ wsvc' = [wsvc EXCEPT ![t] = "none"]
    /\ UNCHANGED <<wscan, wev, position, outputs, eventsLeft>>
    /\ WorkerFrame

(* lines 921-927: leave when the flag was cleared, else handle the events of
   the batch *)
WorkerCheck(t) ==
    /\ wpc[t] = "check"
    /\ IF ~doeventloop
       THEN /\ wpc' = [wpc EXCEPT ![t] = "exited"]
            /\ wev' = [wev EXCEPT ![t] = <<>>]
       ELSE /\ wpc' = [wpc EXCEPT ![t] = IF wev[t] = <<>> THEN "loop" ELSE "handle"]
            /\ UNCHANGED wev
    /\ UNCHANGED <<wsvc, wscan, touched, position, outputs, eventsLeft>>
    /\ WorkerFrame

(* where the worker goes once the head of its batch is done with *)
AfterEventExit(t) == "exited"
AfterEvent(t) == IF Tail(wev[t]) = <<>> THEN "loop" ELSE "handle"

(* handlelocationevent(), lines 935-946, for the next event of the batch: an
   event lacking latitude, longitude or altitude is logged and skipped, any
   other is handed to handlelocationeventtoxyz(), which starts nemlookup() *)
WorkerHandle(t) ==
    /\ wpc[t] = "handle" /\ wev[t] # <<>>
    /\ LET e == Head(wev[t]) IN
       IF ~e.fields
       THEN /\ outputs' = Append(outputs, Output("warn_invalid", e.nem, 0, <<>>))
            /\ wev' = [wev EXCEPT ![t] = Tail(@)]
            /\ wpc' = [wpc EXCEPT ![t] = AfterEvent(t)]
            /\ UNCHANGED wscan
       ELSE /\ wpc' = [wpc EXCEPT ![t] = "lookup"]
            /\ wscan' = [wscan EXCEPT ![t] = [left |-> emane_nodes, seen |-> emane_nodes]]
            /\ UNCHANGED <<wev, outputs>>
    /\ UNCHANGED <<wsvc, touched, position, eventsLeft>>
    /\ WorkerFrame

(* emane_node.getnemnetif(nemid): the netif of EMANE node k carrying nemid *)
getnemnetif(k, nemid) == {n \in Netifs : nemidmap[<<k, n>>] = nemid}

(* int(v), lines 958-960, of a derived coordinate; coordinates are counted in
   halves so that values between two integers exist, and int() truncates
   towards zero *)
IntOf(halves) == IF halves >= 0 THEN halves \div 2 ELSE 0 - ((0 - halves) \div 2)

(* int.bit_length(): the number of bits of the absolute value *)
RECURSIVE BitLength(_)
BitLength(v) == IF v = 0 THEN 0
                ELSE IF v < 0 THEN BitLength(0 - v)
                ELSE 1 + BitLength(v \div 2)

(* lines 962-965: the test that rejects a coordinate *)
BitCheckWide(v) == BitLength(v) > 17 \/ v < 0
BitCheck(v) == BitLength(v) > 16 \/ v < 0

ToXyzAnyNode(e, netif) ==
    [out |-> Output("node_msg", e.nem, netif.node, <<IntOf(e.x), IntOf(e.y), IntOf(e.z)>>),
     set |-> TRUE]

(* line 980: node.data(message_type=0, lat=lat, lon=lon, alt=alt) is given the
   values of the event, which the model holds as the untruncated coordinates *)
MessageGeoTruncated(e) == <<2 * IntOf(e.x), 2 * IntOf(e.y), 2 * IntOf(e.z)>>
MessageGeo(e) == <<e.x, e.y, e.z>>

(* handlelocationeventtoxyz(), lines 956-987, once nemlookup() has found the
   netif: what is logged or broadcast, and the position the owner then has *)
ToXyz(e, netif) ==
    LET x == IntOf(e.x)
        y == IntOf(e.y)
        z == IntOf(e.z)
        n == netif.node
    IN IF BitCheck(x) \/ BitCheck(y) \/ BitCheck(z)
       THEN [out |-> Output("error_range", e.nem, n, <<x, y, z>>), set |-> FALSE]
       ELSE IF n \notin sessionNodes
       THEN [out |-> Output("exception_node", e.nem, n, <<>>), set |-> FALSE]
       ELSE [out |-> [Output("node_msg", e.nem, n, <<x, y, z>>) EXCEPT !.geo = MessageGeo(e)],
             set |-> TRUE]

(* nemlookup(), lines 587-603, one iteration of the scan over the registry,
   and the rest of handlelocationeventtoxyz(), lines 956-987, once it ends.
   No lock is taken.  A registry whose size changed since the scan began makes
   the dict iterator raise, which ends the thread. *)
WorkerLookup(t) ==
    /\ wpc[t] = "lookup"
    /\ LET e == Head(wev[t]) IN
       IF Cardinality(emane_nodes) # Cardinality(wscan[t].seen)
       THEN /\ wpc' = [wpc EXCEPT ![t] = "exited"]
            /\ wscan' = [wscan EXCEPT ![t] = NoScan]
            /\ wev' = [wev EXCEPT ![t] = <<>>]
            /\ UNCHANGED <<position, outputs>>
       ELSE IF wscan[t].left \cap emane_nodes = {}
       THEN /\ outputs' = Append(outputs, Output("info_unknown", e.nem, 0, <<>>))
            /\ wpc' = [wpc EXCEPT ![t] = AfterEvent(t)]
            /\ wscan' = [wscan EXCEPT ![t] = NoScan]
            /\ wev' = [wev EXCEPT ![t] = Tail(@)]
            /\ UNCHANGED position
       ELSE \E k \in wscan[t].left \cap emane_nodes :
              IF getnemnetif(k, e.nem) = {}
              THEN /\ wscan' = [wscan EXCEPT ![t].left = @ \ {k}]
                   /\ UNCHANGED <<wpc, wev, position, outputs>>
              ELSE \E n \in getnemnetif(k, e.nem) :
                   LET r == ToXyz(e, n) IN
                   /\ outputs' = Append(outputs, r.out)
                   /\ position' = IF r.set
                                  THEN [position EXCEPT ![n.node] = r.out.pos]
                                  ELSE position
                   /\ wpc' = [wpc EXCEPT ![t] = AfterEvent(t)]
                   /\ wscan' = [wscan EXCEPT ![t] = NoScan]
                   /\ wev' = [wev EXCEPT ![t] = Tail(@)]
    /\ UNCHANGED <<wsvc, touched, eventsLeft>>
    /\ WorkerFrame

Worker == \E t \in Threads :
            \/ WorkerStart(t) \/ WorkerLoop(t) \/ WorkerCall(t)
            \/ WorkerRecvEvent(t) \/ WorkerRecvBreak(t) \/ WorkerRecvClosed(t)
            \/ WorkerCheck(t) \/ WorkerHandle(t) \/ WorkerLookup(t)

-----------------------------------------------------------------------------
(* Initial states *)

(* session topologies: EMANE nodes with pairwise disjoint sets of netifs *)
Topologies(maxnems) ==
    {t \in UNION {[D -> SUBSET Netifs] : D \in SUBSET EmaneIds} :
        /\ \A k1, k2 \in DOMAIN t : k1 # k2 => t[k1] \cap t[k2] = {}
        /\ Cardinality(UNION {t[k] : k \in DOMAIN t}) <= maxnems}

(* the state of a manager after __init__, lines 68-97, in a session whose
   objects and options are given *)
InitManager ==
    /\ emane_nodes = {}
    /\ nemidmap = [x \in AllNems |-> 0]
    /\ ifccounts = <<>>
    /\ nodeLock = "free" /\ ifcLock = "free"
    /\ service = "none" /\ svcBreak = FALSE
    /\ doeventloop = FALSE /\ eventmonthread = 0
    /\ platformport = get_config_item_int(NotSet, DefaultPlatformPort)
    /\ transformport = get_config_item_int(NotSet, DefaultTransformPort)
    /\ pc = "idle" /\ op = "none" /\ ret = "none" /\ setupRet = "none"
    /\ outcomes = <<>>
    /\ cd = NoCd /\ platformxmls = <<>> /\ run = FreshRun
    /\ sent = <<>>
    /\ linkSeen = [s \in ServerNames |-> 0]
    /\ peerCfg = [p \in PeerNames |-> [idx |-> 0, values |-> DefaultConfig]]
    /\ peerNems = [p \in PeerNames |-> {}]
    /\ peerBuilt = [p \in PeerNames |-> 0]
    /\ files = [platform |-> <<>>, nemxml |-> {}, eventxml |-> FALSE, emane_nems |-> {}]
    /\ daemons = {} /\ installed = {}
    /\ wpc = [t \in Threads |-> "unborn"]
    /\ wsvc = [t \in Threads |-> "none"]
    /\ wscan = [t \in Threads |-> NoScan]
    /\ wev = [t \in Threads |-> <<>>]
    /\ touched = FALSE
    /\ position = [o \in OwnerIds |-> NoPosition]
    /\ outputs = <<>>

(* a location event: the NEM id it names, whether latitude, longitude and
   altitude are all present, and the coordinates getxyz() derives from them,
   in halves; getxyz() is outside this module, and latitude, longitude and
   altitude are held as the untruncated coordinates they stand for *)
LocationEvent(nem, fields, x, y, z) ==
    [nem |-> nem, fields |-> fields, x |-> x, y |-> y, z |-> z]

(* batches of one complete event at the origin *)
PlainEvents == {<<LocationEvent(nem, TRUE, 0, 0, 0)>> : nem \in EventNemIds}

LinkAdd(p) == [add |-> TRUE, net |-> TRUE, servers |-> {p}]

(* the master on a single server, with the event channel *)
LifeTopologies ==
    {<<>>,
     [k \in {1} |-> {NetifOf(11, 0), NetifOf(12, 0)}],
     [k \in {1, 2} |-> IF k = 1 THEN {NetifOf(11, 0)} ELSE {NetifOf(13, 0)}]}

Init ==
    /\ InitManager
    /\ portItems = NoPortItems
    /\ topo \in LifeTopologies
    /\ master = TRUE
    /\ nodeServers = [k \in DOMAIN topo |-> {Localhost}]
    /\ srvSock = [s \in ServerNames |-> FALSE]
    /\ peerIfcs = [p \in PeerNames |-> 0]
    /\ monitorOn \in BOOLEAN
    /\ sessionNodes = OwnerIds
    /\ eventKinds = PlainEvents
    /\ launchFails = {}
    /\ config = DefaultConfig
    /\ linkMsgs = <<>>
    /\ opsLeft = MaxOps
    /\ eventsLeft = MaxEvents

StartupSteps ==
    \/ reset \/ SetupAddNode \/ SetupControlNet
    \/ CheckDistributedBegin \/ CheckDistributedServer \/ CheckDistributedEnd
    \/ SetupFinish
    \/ BuildPlatformXml \/ XmlWritePlatform \/ BuildNemXml \/ BuildEventServiceXml
    \/ InitEventService \/ StartEventMonitor
    \/ StartDaemon \/ StartHostDaemon \/ installnetifs \/ StartupFinish

(* the steps of checkdistributed that follow a push to a peer; they are
   reached only by a master whose EMANE nodes have peer servers *)
PushSteps == CheckDistributedLockCounts \/ CheckDistributedCount

ShutdownSteps ==
    \/ ShutdownLockCounts \/ ShutdownClearCounts \/ ShutdownClear
    \/ deinstallnetifs \/ stopdaemons
    \/ StopClearFlag \/ StopBreakLoop \/ StopDeleteService \/ StopJoin

Next ==
    \/ StartupCall \/ ResetCall \/ ShutdownCall \/ poststartup
    \/ StartupSteps \/ ShutdownSteps
    \/ Worker

Spec == Init /\ [][Next]_vars

-----------------------------------------------------------------------------
(* Document generation on a single authoritative server, over all topologies *)

(* configured nem_id_start values: the small ones, and the last id that fits
   the two id octets of a hardware address *)
NemIdStarts == (1..MaxStart) \cup {256 * 256 - 1}

InitBuild ==
    /\ InitManager
    /\ portItems = NoPortItems
    /\ topo \in Topologies(MaxNems)
    /\ master = TRUE
    /\ nodeServers = [k \in DOMAIN topo |-> {Localhost}]
    /\ srvSock = [s \in ServerNames |-> FALSE]
    /\ peerIfcs = [p \in PeerNames |-> 0]
    /\ monitorOn = FALSE
    /\ sessionNodes = OwnerIds
    /\ eventKinds = PlainEvents
    /\ launchFails = {}
    /\ \E start \in NemIdStarts : config = [DefaultConfig EXCEPT !.nem_id_start = start]
    /\ linkMsgs = <<>>
    /\ opsLeft = 1
    /\ eventsLeft = 0

NextBuild == StartupCall \/ StartupSteps

SpecBuild == InitBuild /\ [][NextBuild]_vars

-----------------------------------------------------------------------------
(* Id negotiation between the master and its peers *)

AllocTopologies ==
    {[k \in {1} |-> {NetifOf(11, 0)}],
     [k \in {1, 2} |-> IF k = 1 THEN {NetifOf(11, 0), NetifOf(11, 1)} ELSE {}]}

InitAlloc ==
    /\ InitManager
    /\ portItems = NoPortItems
    /\ topo \in AllocTopologies
    /\ master = TRUE
    /\ \E peers \in SUBSET PeerNames :
         /\ nodeServers = [k \in DOMAIN topo |-> peers \cup {Localhost}]
         /\ srvSock \in [ServerNames -> BOOLEAN]
         /\ ~srvSock[Localhost]
         /\ \A p \in PeerNames \ peers : srvSock[p]
         /\ peerIfcs \in [PeerNames -> PeerIfcCounts]
         /\ \A p \in PeerNames \ peers : peerIfcs[p] = 0
    /\ monitorOn = FALSE
    /\ sessionNodes = OwnerIds
    /\ eventKinds = PlainEvents
    /\ launchFails = {}
    /\ \E start \in 1..MaxStart, plat \in PlatformStarts :
         config = [DefaultConfig EXCEPT !.nem_id_start = start, !.platform_id_start = plat]
    /\ linkMsgs = [m \in {LinkAdd(p) : p \in {q \in PeerNames : peerIfcs[q] > 0}} |->
                      peerIfcs[Min(m.servers)]]
    /\ opsLeft = 1
    /\ eventsLeft = 0

(* the notifications of the peers' links arrive before the session is
   instantiated, lowest server first *)
LinksBeforeStartup ==
    /\ opsLeft = 1 /\ Idle
    /\ \A m \in DOMAIN linkMsgs :
         linkMsgs[m] > 0 =>
            \A m2 \in DOMAIN linkMsgs :
               (linkMsgs[m2] > 0 /\ Min(m2.servers) < Min(m.servers)) => FALSE
    /\ (HandleDistributedLock \/ HandleDistributed)

(* the session is instantiated once the broker is not inside a notification *)
StartupAfterLinks == ifcLock = "free" /\ StartupCall

(* the peers act once the master's startup has returned, one after the other *)
PeersAfterStartup ==
    /\ Idle /\ opsLeft = 0
    /\ \/ (\A p \in PeerNames : peerBuilt[p] = peerCfg[p].idx) /\ PeerReceive
       \/ PeerBuild

NextAlloc == StartupAfterLinks \/ StartupSteps \/ PushSteps
             \/ LinksBeforeStartup \/ PeersAfterStartup

SpecAlloc == InitAlloc /\ [][NextAlloc]_vars

-----------------------------------------------------------------------------
(* setup on a master or a slave, with configuration pushes reaching the slave *)

InitSetup ==
    /\ InitManager
    /\ portItems = NoPortItems
    /\ topo \in LifeTopologies
    /\ master \in BOOLEAN
    /\ nodeServers = [k \in DOMAIN topo |-> {Localhost}]
    /\ srvSock = [s \in ServerNames |-> FALSE]
    /\ peerIfcs = [p \in PeerNames |-> 0]
    /\ monitorOn = TRUE
    /\ sessionNodes = OwnerIds
    /\ eventKinds = PlainEvents
    /\ launchFails = {}
    /\ \E ota \in {DefaultDev, "eth9"}, ev \in {DefaultDev, "eth9"} :
         /\ master \/ (ota = DefaultDev /\ ev = DefaultDev)
         /\ config = [DefaultConfig EXCEPT !.otamanagerdevice = ota,
                                            !.eventservicedevice = ev]
    /\ linkMsgs = <<>>
    /\ opsLeft = MaxOps
    /\ eventsLeft = 0

WorkerWaiting == \E t \in Threads :
                    \/ WorkerStart(t) \/ WorkerLoop(t) \/ WorkerCall(t)
                    \/ WorkerRecvClosed(t)

NextSetup == StartupCall \/ StartupSteps \/ ConfigPush \/ WorkerWaiting

SpecSetup == InitSetup /\ [][NextSetup]_vars

-----------------------------------------------------------------------------
(* Properties of the id negotiation and of buildplatformxml *)

(* the peers a configuration was pushed to *)
PushedPeers == {sent[i].to : i \in DOMAIN sent}

(* the NEM ids the master gave to its own interfaces *)
OwnNemIds == {nemidmap[x] : x \in RegisteredNems}

(* the master's startup has returned, every link notification was counted
   before it began, and every peer that was pushed a configuration has built
   its documents from it *)
RunBuilt ==
    /\ Idle /\ ret = SUCCESS
    /\ \A m \in DOMAIN linkMsgs : linkMsgs[m] = 0
    /\ \A p \in PushedPeers : peerBuilt[p] > 0 /\ peerBuilt[p] = peerCfg[p].idx

(* C1: in a distributed run, once the master has negotiated and every server
   has built from the nem_id_start it holds, no two interfaces of the run
   carry the same NEM id: the master's own ids are pairwise distinct, they
   fall in no range pushed to a peer, and the peers' ranges are disjoint. *)
C1_UniqueNemIds ==
    RunBuilt =>
        /\ Cardinality(OwnNemIds) = Cardinality(RegisteredNems)
        /\ \A p \in PushedPeers : peerNems[p] \cap OwnNemIds = {}
        /\ \A p, q \in PushedPeers : p # q => peerNems[p] \cap peerNems[q] = {}

(* position of an interface in (EMANE node id, owning node id) order *)
OwnerBefore(x, y) ==
    \/ x[1] < y[1]
    \/ x[1] = y[1] /\ x[2].node < y[2].node

(* position of an interface in (EMANE node id, owning node id, interface
   index) order *)
IndexBefore(x, y) ==
    \/ OwnerBefore(x, y)
    \/ x[1] = y[1] /\ x[2].node = y[2].node /\ x[2].netindex < y[2].netindex

(* the ids of the registered interfaces are exactly start..start+N-1, one each *)
ExactIdRange ==
    /\ OwnNemIds = config.nem_id_start .. (config.nem_id_start + numnems - 1)
    /\ \A x, y \in RegisteredNems : x # y => nemidmap[x] # nemidmap[y]

(* C2 as stated: on a single server buildplatformxml assigns exactly the ids
   start..start+N-1, one per interface, in ascending (node id, interface
   index) order. *)
C2_AscendingIndexOrder ==
    run.built =>
        /\ ExactIdRange
        /\ \A x, y \in RegisteredNems : IndexBefore(x, y) => nemidmap[x] < nemidmap[y]

(* C2, amended: on a single server buildplatformxml assigns exactly the ids
   start..start+N-1, one per interface, in ascending (EMANE node id, owning
   node id) order; interfaces of one owner on one EMANE node are not ordered
   by their index. *)
C2_AscendingOwnerOrder ==
    run.built =>
        /\ ExactIdRange
        /\ \A x, y \in RegisteredNems : OwnerBefore(x, y) => nemidmap[x] < nemidmap[y]

(* a build from a non-default start that numbered two interfaces of one owner
   on one EMANE node against their index order *)
C2_Witness ==
    /\ run.built /\ numnems = MaxNems /\ config.nem_id_start > DefaultNemIdStart
    /\ \E x, y \in RegisteredNems :
          /\ x[1] = y[1] /\ x[2].node = y[2].node
          /\ x[2].netindex < y[2].netindex /\ nemidmap[x] > nemidmap[y]

(* C3: one negotiation on the master pushes platform ids to the participating
   peers with a transport, in server-name order: the first gets the master's
   platform_id_start at the beginning of the call plus one, each following
   peer one more than the previous. *)
C3_PlatformIdsIncreasing ==
    /\ \A i \in DOMAIN sent : sent[i].values.platform_id_start = cd.start + i
    /\ \A i, j \in DOMAIN sent : i < j => sent[i].to < sent[j].to
    /\ run.negotiated =>
          PushedPeers = {p \in PeerNames : /\ p \in UNION {nodeServers[k] : k \in DOMAIN topo}
                                           /\ srvSock[p]}

(* a negotiation that pushed to every peer, from a non-default start *)
C3_Witness ==
    /\ run.negotiated /\ Len(sent) = MaxPeers
    /\ cd.start # DefaultPlatformIdStart

-----------------------------------------------------------------------------
(* Properties of setup and startup *)

(* C4: on a slave with at least one registered radio node, a setup call
   returns NOT_READY while the platform_id_start it holds is the default, and
   SUCCESS once a configuration push has changed that value. *)
C4_SlaveSetupOutcome ==
    [][ (~master /\ DOMAIN topo # {} /\ setupRet = "none" /\ setupRet' # "none")
          => setupRet' = IF config'.platform_id_start = DefaultPlatformIdStart
                         THEN NOT_READY ELSE SUCCESS ]_vars

(* a slave whose first setup was deferred and whose second, made after a push
   changed the platform id, succeeded *)
C4_Witness ==
    /\ ~master /\ emane_nodes # {}
    /\ outcomes = <<NOT_READY, SUCCESS>>
    /\ config.platform_id_start # DefaultPlatformIdStart

(* C5: when setup yields NOT_NEEDED or NOT_READY, startup returns that
   outcome and has generated no document, not initialised the event service,
   started no worker and no daemon, installed no interface and written no
   summary file. *)
C5_NothingDoneUnlessSuccess ==
    setupRet \in {NOT_NEEDED, NOT_READY} =>
        /\ ret = setupRet /\ Idle
        /\ ~run.built /\ run.docs = {}
        /\ ~run.evinit /\ ~run.worker
        /\ run.daemons = {} /\ ~run.installed /\ ~run.summary

(* a startup on a slave that returned NOT_READY after an earlier one that had
   also been deferred *)
C5_Witness ==
    /\ ~master /\ emane_nodes # {}
    /\ Idle /\ ret = NOT_READY /\ setupRet = NOT_READY
    /\ Len(outcomes) = MaxOps

(* C6: in every startup the platform documents are built and written only
   after checkdistributed has returned, no daemon is started before every
   platform document of that startup is written, and the document a daemon is
   started with lists exactly the ids given to its interfaces, all of them
   counted from the nem_id_start held after the negotiation. *)
C6_DocumentsBetweenNegotiationAndDaemons ==
    op = "startup" =>
        /\ (run.built \/ run.docs # {}) => run.negotiated
        /\ run.daemons # {} => (run.built /\ run.docs = DOMAIN platformxmls)
        /\ \A d \in run.daemons :
              /\ d \in DOMAIN files.platform
              /\ files.platform[d].nems =
                     {nemidmap[x] : x \in {y \in RegisteredNems : DocKey(y[2]) = d}}
              /\ files.platform[d].nems \subseteq
                     config.nem_id_start .. (config.nem_id_start + numnems - 1)

(* a startup that wrote two platform documents and started the daemons *)
C6_Witness ==
    /\ op = "startup" /\ Cardinality(run.docs) = 2
    /\ run.daemons = run.docs

-----------------------------------------------------------------------------
(* Properties of the event worker *)

(* the worker threads that are inside handlelocationevent *)
Handling(t) == wpc[t] = "lookup"

(* C7: in every startup installnetifs runs after the daemons were started and
   before the worker of that startup can deliver a position update: while the
   interfaces are not installed the worker is not inside handlelocationevent. *)
C7_InstallBeforeWorkerDelivers ==
    (op = "startup" /\ numnems > 0) =>
        /\ run.installed => run.daemons = {DaemonKey(n) : n \in getnodes}
        /\ \A t \in Threads :
              (run.worker /\ t = eventmonthread /\ Handling(t)) => run.installed

(* C8: at most one worker thread is alive at any time. *)
C8_AtMostOneWorker ==
    Cardinality({t \in Threads : Alive(t)}) <= 1

(* C9: stopeventmonitor tears the transport down only once no worker thread
   is left inside eventmonitorloop. *)
C9_TeardownAfterWorkerExit ==
    [][ (pc = "stop_delete" /\ pc' = "stop_join") => \A t \in Threads : ~Alive(t) ]_vars

(* C10: a registry scan by the worker never interleaves with the registry
   being cleared or populated: throughout the scan the registry is the one
   the scan began with, and the session thread does not hold the registry
   lock. *)
C10_ScanUnderRegistryLock ==
    \A t \in Threads :
        Handling(t) => (emane_nodes = wscan[t].seen /\ nodeLock # "main")

-----------------------------------------------------------------------------
(* The facade calls of the session thread against the broker thread *)

InitLocks ==
    /\ InitManager
    /\ portItems = NoPortItems
    /\ topo \in LifeTopologies
    /\ master = TRUE
    /\ nodeServers = [k \in DOMAIN topo |-> {Localhost, Min(PeerNames)}]
    /\ srvSock = [s \in ServerNames |-> s = Min(PeerNames)]
    /\ peerIfcs = [p \in PeerNames |-> IF p = Min(PeerNames) THEN MaxLinks ELSE 0]
    /\ monitorOn = FALSE
    /\ sessionNodes = OwnerIds
    /\ eventKinds = PlainEvents
    /\ launchFails = {}
    /\ config = DefaultConfig
    /\ linkMsgs = [m \in {LinkAdd(Min(PeerNames))} |-> MaxLinks]
    /\ opsLeft = MaxOps
    /\ eventsLeft = 0

BrokerSteps == HandleDistributedLock \/ HandleDistributed

NextLocks ==
    \/ StartupCall \/ ResetCall \/ ShutdownCall \/ poststartup
    \/ AddNodeCall \/ AddNodeDirect
    \/ StartupSteps \/ PushSteps \/ ShutdownSteps
    \/ BrokerSteps

SpecLocks == InitLocks /\ [][NextLocks]_vars

(* C11: no thread ever holds the registry lock and the interface-count lock
   together, and no thread that holds one of them is at a point where it
   acquires the other, so the two locks cannot deadlock. *)
C11_LocksNeverNested ==
    /\ ~(nodeLock = "main" /\ ifcLock = "main")
    /\ nodeLock = "main" => pc \notin {"sd_clear", "cd_lock"}
    /\ ifcLock = "main" => pc \in {"sd_counts", "cd_count"}

(* both locks are held at once, by different threads: the session thread is
   inside shutdown with the registry lock, the broker inside handledistributed
   with the interface-count lock *)
C11_Witness ==
    /\ op = "shutdown" /\ nodeLock = "main"
    /\ ifcLock = "broker"

(* C12: an add_node call for an id that is already registered raises KeyError,
   leaves the registry as it was and releases the registry lock; an add_node
   call that leaves the registry unchanged is one that raised. *)
C12_DuplicateAddRaises ==
    [][ (op = "add_node" /\ op' = "none")
          => /\ nodeLock' = "free"
             /\ emane_nodes \subseteq emane_nodes'
             /\ (ret' = "KeyError") <=> (emane_nodes' = emane_nodes)
             /\ (ret' = "KeyError") =>
                   \E k \in DOMAIN topo : k \in emane_nodes ]_vars

(* a duplicate add_node call was refused on a registry filled by a startup *)
C12_Witness ==
    /\ Idle /\ ret = "KeyError"
    /\ emane_nodes = DOMAIN topo /\ emane_nodes # {}
    /\ Len(outcomes) > 0

-----------------------------------------------------------------------------
(* Rebuilding on an unchanged topology and configuration *)

(* a second startup has built its documents and written none of them yet, so
   the session directory still holds the documents of the first *)
Rebuilt ==
    /\ op = "startup" /\ Len(outcomes) = 2 /\ outcomes[1] = SUCCESS
    /\ pc = "xmlwrite" /\ run.docs = {}

(* C13: after a startup that built the documents, a reset followed by setup
   and build on the same topology and configuration builds again and yields
   the same document keys, the same NEM id for every interface (hence the
   same hardware address) and the same option values in every platform
   document. *)
C13_RebuildReproducesDocuments ==
    /\ (Len(outcomes) >= 2 /\ outcomes[1] = SUCCESS) => outcomes[2] = SUCCESS
    /\ Rebuilt =>
          /\ platformxmls = files.platform
          /\ \A x \in RegisteredNems :
                <<x[2].node, x[2].netindex, nemidmap[x]>> \in files.emane_nems

-----------------------------------------------------------------------------
(* Hardware addresses *)

(* the two trailing octets of an address read as a big-endian 16-bit number *)
TrailingOctets(addr) == addr[5] * 256 + addr[6]

(* C14: for every NEM id X that buildplatformxml assigns, the hardware address
   derived from X decodes back to X through its two trailing octets. *)
C14_HwAddrRoundTrip ==
    run.built =>
        \A x \in RegisteredNems : TrailingOctets(HwAddr(nemidmap[x])) = nemidmap[x]


-----------------------------------------------------------------------------
(* Location events: one started master with two NEMs, and every kind of event
   the channel can deliver *)

(* derived coordinates, in halves: -1, -0.5, 65535.5 and 65536 *)
CoordSamples == {0 - 2, 0 - 1, 2 * 65535 + 1, 2 * 65536}

EventSamples ==
    {LocationEvent(nem, TRUE, x, y, z) : nem \in EventNemIds, x \in CoordSamples,
                                         y \in CoordSamples, z \in CoordSamples}
    \cup {LocationEvent(nem, FALSE, 0, 0, 0) : nem \in EventNemIds}

(* an event of NEM 1 that is applied, and events that are dropped for each of
   the reasons the handlers know; NEM 2 belongs to node 12 *)
AppliedEvent == LocationEvent(1, TRUE, 2 * 65535 + 1, 0 - 1, 2 * 65535 + 1)
DroppedBatch ==
    <<LocationEvent(1, FALSE, 0, 0, 0),
      LocationEvent(9, TRUE, 0 - 1, 0 - 1, 0 - 1),
      LocationEvent(1, TRUE, 2 * 65536, 0 - 1, 0 - 1),
      LocationEvent(1, TRUE, 0 - 1, 0 - 2, 0 - 1),
      LocationEvent(2, TRUE, 0 - 1, 0 - 1, 0 - 1)>>
DroppedEvents == {DroppedBatch[i] : i \in DOMAIN DroppedBatch}

(* what the channel delivers in one run: one batch of a single event or of a
   dropped event followed by an applied one, over and over, or a batch of each
   of two such events, or one batch of every dropped event and an applied one *)
EventChannels ==
    {{<<e>>} : e \in EventSamples}
    \cup {{<<d, AppliedEvent>>} : d \in DroppedEvents}
    \cup {{<<d>>, <<AppliedEvent>>} : d \in DroppedEvents}
    \cup {{DroppedBatch \o <<AppliedEvent>>}}

InitEvents ==
    /\ InitManager
    /\ portItems = NoPortItems
    /\ topo = [k \in {1} |-> {NetifOf(11, 0), NetifOf(12, 0)}]
    /\ master = TRUE
    /\ nodeServers = [k \in DOMAIN topo |-> {Localhost}]
    /\ srvSock = [s \in ServerNames |-> FALSE]
    /\ peerIfcs = [p \in PeerNames |-> 0]
    /\ monitorOn = TRUE
    /\ sessionNodes \in {OwnerIds, OwnerIds \ {12}}
    /\ eventKinds \in EventChannels
    /\ launchFails = {}
    /\ config = DefaultConfig
    /\ linkMsgs = <<>>
    /\ opsLeft = 1
    /\ eventsLeft = MaxEvents + 1

(* the worker while the event channel stays open *)
WorkerEvents == \E t \in Threads :
                   \/ WorkerStart(t) \/ WorkerLoop(t) \/ WorkerCall(t)
                   \/ WorkerRecvEvent(t) \/ WorkerCheck(t) \/ WorkerHandle(t)
                   \/ WorkerLookup(t)

NextEvents == StartupCall \/ StartupSteps \/ WorkerEvents

SpecEvents == InitEvents /\ [][NextEvents]_vars

(* the owners of the interfaces that carry NEM id nem in the registry *)
NemOwners(nem) == {x[2].node : x \in {y \in AllNems : y[1] \in emane_nodes /\ nemidmap[y] = nem}}

(* the worker finishes the head of its batch in this step *)
EventDone(t) == wpc[t] \in {"handle", "lookup"} /\ wev[t] # <<>> /\ wev'[t] = Tail(wev[t])

(* the step broadcasts a node message *)
Broadcasts == /\ Len(outputs') = Len(outputs) + 1
              /\ outputs'[Len(outputs')].kind = "node_msg"

NoBroadcast == \A i \in 1..Len(outputs') : i > Len(outputs) => outputs'[i].kind # "node_msg"

InSpace(v) == v \in 0..65535

(* C15: for an event naming a NEM whose owner is a node of the session, the
   handler applies the event -- sets the owner's position to the truncated
   coordinates and broadcasts one node message -- exactly when each truncated
   coordinate lies in 0..65535; otherwise it changes no position and
   broadcasts nothing. *)
C15_AcceptsExactlyCoordinateSpace ==
    [][\A t \in Threads :
         (EventDone(t) /\ Head(wev[t]).fields
            /\ NemOwners(Head(wev[t]).nem) \cap sessionNodes # {})
         => LET e == Head(wev[t])
                xyz == <<IntOf(e.x), IntOf(e.y), IntOf(e.z)>>
            IN IF InSpace(xyz[1]) /\ InSpace(xyz[2]) /\ InSpace(xyz[3])
               THEN /\ Broadcasts
                    /\ \E o \in NemOwners(e.nem) :
                         position' = [position EXCEPT ![o] = xyz]
               ELSE /\ NoBroadcast
                    /\ position' = position]_vars

(* an event with a coordinate of 65536 was turned down and the next one, with
   a coordinate of exactly 65535, was applied *)
C15_Witness ==
    /\ \E i \in 1..Len(outputs) : outputs[i].kind = "error_range" /\ outputs[i].pos[1] = 65536
    /\ \E o \in OwnerIds : position[o] # NoPosition /\ position[o][1] = 65535


(* the event is complete, names a NEM of the registry whose owner is in the
   session, and its truncated coordinates are in the coordinate space *)
ValidEvent(e) ==
    /\ e.fields
    /\ NemOwners(e.nem) \cap sessionNodes # {}
    /\ InSpace(IntOf(e.x)) /\ InSpace(IntOf(e.y)) /\ InSpace(IntOf(e.z))

(* an event for an unknown NEM has been dropped before *)
DroppedUnknown == \E i \in 1..Len(outputs) : outputs[i].kind = "info_unknown"

(* C16: an event naming a NEM id no registered interface carries is dropped
   with an informational entry and leaves the worker in its loop, with the
   loop flag and the transport as they were and no position changed; every
   valid event for a known NEM handled after such a drop is still applied. *)
C16_UnknownNemDroppedLoopGoesOn ==
    [][\A t \in Threads :
         /\ (EventDone(t) /\ Head(wev[t]).fields /\ NemOwners(Head(wev[t]).nem) = {})
            => /\ outputs' = Append(outputs, Output("info_unknown", Head(wev[t]).nem, 0, <<>>))
               /\ position' = position
               /\ wpc'[t] \in {"loop", "handle"}
               /\ doeventloop' = doeventloop /\ service' = service
         /\ (EventDone(t) /\ DroppedUnknown /\ ValidEvent(Head(wev[t])))
            => /\ Broadcasts
               /\ \E o \in NemOwners(Head(wev[t]).nem) :
                    position'[o] = <<IntOf(Head(wev[t]).x), IntOf(Head(wev[t]).y),
                                     IntOf(Head(wev[t]).z)>>]_vars

(* an event for NEM 9 was dropped and a later batch moved a node *)
C16_Witness ==
    /\ Len(outputs) >= 2
    /\ outputs[1].kind = "info_unknown" /\ outputs[1].nem = 9
    /\ outputs[Len(outputs)].kind = "node_msg"
    /\ position[outputs[Len(outputs)].node] = outputs[Len(outputs)].pos
    /\ \E t \in Threads : wpc[t] = "loop"
    /\ \A b \in eventKinds : Len(b) = 1


(* the entry the handlers log for an event they turn down *)
DropKind(e) ==
    IF ~e.fields THEN "warn_invalid"
    ELSE IF NemOwners(e.nem) = {} THEN "info_unknown"
    ELSE IF ~(InSpace(IntOf(e.x)) /\ InSpace(IntOf(e.y)) /\ InSpace(IntOf(e.z)))
    THEN "error_range"
    ELSE "exception_node"

(* C17: an event that lacks latitude, longitude or altitude, names an unknown
   NEM, has a coordinate outside the coordinate space, or whose owner is not a
   node of the session, is logged and turned down without ending the worker,
   changes no position and broadcasts nothing, and the worker goes on with
   the remaining events of the same batch. *)
C17_BadEventsOnlyLogged ==
    [][\A t \in Threads :
         (EventDone(t) /\ ~ValidEvent(Head(wev[t])))
         => /\ Len(outputs') = Len(outputs) + 1
            /\ outputs'[Len(outputs')].kind = DropKind(Head(wev[t]))
            /\ \A i \in 1..Len(outputs) : outputs'[i] = outputs[i]
            /\ position' = position
            /\ wpc'[t] = IF Tail(wev[t]) = <<>> THEN "loop" ELSE "handle"
            /\ doeventloop' = doeventloop]_vars

(* one batch held an event of each bad kind and then a valid one: each bad
   event was logged, in order, and the valid one moved its node *)
C17_Witness ==
    /\ Len(outputs) = Len(DroppedBatch) + 1
    /\ \A i \in DOMAIN DroppedBatch : outputs[i].kind = DropKind(DroppedBatch[i])
    /\ {"warn_invalid", "info_unknown", "error_range", "exception_node"}
          \subseteq {outputs[i].kind : i \in DOMAIN outputs}
    /\ outputs[Len(outputs)].kind = "node_msg"
    /\ position[11] = outputs[Len(outputs)].pos
    /\ position[12] = NoPosition


-----------------------------------------------------------------------------
(* startup under every event-service configuration *)

InitEventConfig ==
    /\ InitManager
    /\ portItems = NoPortItems
    /\ topo \in LifeTopologies
    /\ master \in BOOLEAN
    /\ nodeServers = [k \in DOMAIN topo |-> {Localhost}]
    /\ srvSock = [s \in ServerNames |-> FALSE]
    /\ peerIfcs = [p \in PeerNames |-> 0]
    /\ monitorOn = TRUE
    /\ sessionNodes = OwnerIds
    /\ eventKinds = PlainEvents
    /\ launchFails = {}
    /\ \E ev \in {DefaultDev, "ctrl1", "eth9"},
          g \in {DefaultEventGroup, CustomEventGroup, BadEventGroup} :
         config = [DefaultConfig EXCEPT !.eventservicedevice = ev,
                                        !.eventservicegroup = g]
    /\ linkMsgs = <<>>
    /\ opsLeft = MaxOps
    /\ eventsLeft = 0

SpecEventConfig == InitEventConfig /\ [][NextSetup]_vars

(* the event-service device names no control network, or the group is not of
   the form group:port *)
BadEventConfig ==
    \/ ~ValidControlNet(config.eventservicedevice)
    \/ ~ParseableGroup(config.eventservicegroup)

(* C18: with at least one radio node and a bad event-service configuration, a
   startup (one that is not put off because a slave still waits for its
   platform id) returns SUCCESS with the documents built, the daemons started
   and the interfaces installed, and with neither an event transport nor a
   worker; it neither raises nor returns NOT_READY. *)
C18_BadEventConfigOnlyDisablesEvents ==
    [][(/\ op = "startup" /\ op' = "none"
        /\ DOMAIN topo # {} /\ BadEventConfig
        /\ ~(~master /\ setupRet' = NOT_READY))
       => /\ ret' = SUCCESS
          /\ service' = "none" /\ eventmonthread' = 0 /\ ~run'.worker
          /\ run'.built /\ run'.installed /\ installed' = emane_nodes
          /\ daemons' # {}]_vars


-----------------------------------------------------------------------------
(* the lifecycle when daemon launches can fail *)

InitLaunch ==
    /\ InitManager
    /\ portItems = NoPortItems
    /\ topo \in LifeTopologies \ {<<>>}
    /\ master = TRUE
    /\ nodeServers = [k \in DOMAIN topo |-> {Localhost}]
    /\ srvSock = [s \in ServerNames |-> FALSE]
    /\ peerIfcs = [p \in PeerNames |-> 0]
    /\ monitorOn \in BOOLEAN
    /\ sessionNodes = OwnerIds
    /\ eventKinds = PlainEvents
    /\ launchFails \in {{}, {12}, {HostKey}}
    /\ \E g \in {DefaultEventGroup, BadEventGroup} :
         /\ g = DefaultEventGroup \/ launchFails = {}
         /\ config = [DefaultConfig EXCEPT !.eventservicegroup = g]
    /\ linkMsgs = <<>>
    /\ opsLeft = MaxOps
    /\ eventsLeft = 1

SpecLaunch == InitLaunch /\ [][Next]_vars

(* C19: a startup in which the launch of a node's daemon, or of the host
   daemon, failed does not return SUCCESS: it ends with the error raised to
   its caller, before any interface is installed. *)
C19_LaunchFailureReachesCaller ==
    [][(op = "startup" /\ op' = "none" /\ run'.failed)
       => (ret' = "ERROR" /\ ~run'.installed /\ ~run'.summary)]_vars

(* one daemon was launched, the launch of another failed, and startup ended
   with the error *)
C19_Witness ==
    /\ Idle /\ run.failed /\ ret = "ERROR"
    /\ run.daemons # {} /\ daemons = run.daemons
    /\ launchFails \cap DocKeys # {}

(* C20: a startup that failed in initeventservice or in startdaemons leaves
   the registry lock free and the registry filled; the shutdown that follows
   leaves no interface installed and no daemon unsignalled, clears the loop
   flag, deletes the event transport and drops the worker handle, and
   releases the registry lock. *)
C20_ShutdownAfterFailedStartup ==
    [][/\ (op = "startup" /\ op' = "none" /\ ret' = "ERROR")
          => (nodeLock' = "free" /\ emane_nodes' = DOMAIN topo /\ emane_nodes' # {})
       /\ (op = "shutdown" /\ op' = "none" /\ ret = "ERROR" /\ emane_nodes # {})
          => /\ installed' = {} /\ daemons' = {}
             /\ ~doeventloop' /\ service' = "none" /\ eventmonthread' = 0
             /\ nodeLock' = "free" /\ emane_nodes' = emane_nodes]_vars

(* a startup started the worker and a daemon and then failed; the shutdown
   after it has signalled the daemon and asked the worker to stop *)
C20_Witness ==
    /\ Idle /\ ret = "ERROR" /\ run.failed
    /\ run.worker /\ run.daemons # {}
    /\ daemons = {} /\ installed = {}
    /\ ~doeventloop /\ eventmonthread = 0 /\ service = "none"
    /\ nodeLock = "free" /\ emane_nodes # {}

(* the host kill command of the stopdaemons() that just ran failed *)
HostKillFailed == \E n \in getnodes : RawNode(n) /\ HostKey \notin daemons

(* C21: stopdaemons does not raise: whatever the kill commands return, every
   non-raw node of getnodes() and, with a raw node, the host has been
   signalled, a failed host kill is logged, and shutdown goes on with
   stopeventmonitor and reaches its end with the loop flag cleared. *)
C21_StopDaemonsNeverRaises ==
    [][/\ (pc = "stopdaemons" /\ pc' # pc)
          => /\ pc' = "stop_flag" /\ op' = "shutdown" /\ nodeLock' = "main"
             /\ daemons' \cap {DaemonKey(n) : n \in getnodes} = {}
             /\ HostKillFailed
                => outputs' = Append(outputs, Output("exception_stop", 0, HostKey, <<>>))
             /\ ~HostKillFailed => outputs' = outputs
       /\ (op = "shutdown" /\ op' = "none" /\ emane_nodes # {})
          => (~doeventloop' /\ eventmonthread' = 0 /\ service' = "none")]_vars

(* a shutdown has ended after the kill of the host daemon, which had never
   been started, failed and after a running node daemon was signalled *)
C21_Witness ==
    /\ Idle /\ ~doeventloop /\ daemons = {}
    /\ run.daemons # {} /\ HostKey \in launchFails
    /\ \E i \in DOMAIN outputs : outputs[i].kind = "exception_stop"


(* the owners of the interfaces of the registered EMANE nodes *)
RadioOwners == {o \in OwnerIds : \E k \in emane_nodes : \E n \in topo[k] : n.node = o}

(* how many daemons of key k one startdaemons call has to start *)
DaemonsDue(k) ==
    IF k = HostKey
    THEN (IF RadioOwners \cap RawOwners # {} THEN 1 ELSE 0)
    ELSE (IF k \in RadioOwners \ RawOwners THEN 1 ELSE 0)

(* C22: when startdaemons has returned, exactly one daemon has been started
   for every non-raw node owning an interface of a registered EMANE node,
   none for any other node, and the host daemon once if a raw node owns such
   an interface and not at all otherwise. *)
C22_OneDaemonPerNode ==
    (pc \in {"installnetifs", "finish"} \/ (Idle /\ ret = SUCCESS))
    => \A k \in DocKeys : Launches(k) = DaemonsDue(k)

(* node 11 has an interface on each of two EMANE nodes and got one daemon *)
C22_Witness ==
    /\ pc = "installnetifs"
    /\ emane_nodes = {1, 2}
    /\ \A k \in emane_nodes : \E n \in topo[k] : n.node = 11
    /\ run.launches = <<11>>


(* C23: buildplatformxml leaves the configured otamanagerdevice and
   eventservicedevice as they were, and every platform document other than
   the host document carries these configured values. *)
C23_OverrideOnlyInHostDocument ==
    [][(pc = "buildplatformxml" /\ pc' # pc)
       => /\ config'.otamanagerdevice = config.otamanagerdevice
          /\ config'.eventservicedevice = config.eventservicedevice
          /\ \A key \in DOMAIN platformxmls' \ {HostKey} :
               /\ platformxmls'[key].otamanagerdevice = config.otamanagerdevice
               /\ platformxmls'[key].eventservicedevice = config.eventservicedevice]_vars


(* C24: with event monitoring switched off or without an event transport,
   starteventmonitor creates no worker, does not touch the loop flag or the
   thread handle (False and None in a manager that has started no worker),
   and startup goes on; a startup that went this way returns SUCCESS. *)
C24_MonitorGuardIsNoError ==
    [][/\ (pc = "starteventmonitor" /\ pc' # pc /\ (~monitorOn \/ service = "none"))
          => /\ wpc' = wpc
             /\ doeventloop' = doeventloop /\ eventmonthread' = eventmonthread
             /\ (\A t \in Threads : wpc[t] = "unborn")
                => (~doeventloop' /\ eventmonthread' = 0)
             /\ pc' \in {"startdaemons", "finish"} /\ op' = "startup"
       /\ (op = "startup" /\ op' = "none" /\ run'.evinit /\ ~run'.worker
           /\ (~monitorOn \/ service = "none"))
          => ret' = SUCCESS]_vars

(* a startup with monitoring switched on whose transport could not be
   created has returned SUCCESS without a worker *)
C24_Witness ==
    /\ Idle /\ ret = SUCCESS /\ run.installed
    /\ monitorOn /\ service = "none"
    /\ ~run.worker /\ ~doeventloop /\ eventmonthread = 0
    /\ \A t \in Threads : wpc[t] = "unborn"


(* C25: in shutdown the event loop is stopped before the interfaces are
   uninstalled, and the interfaces are uninstalled before the daemons are
   stopped. *)
C25_TeardownReversesStartup ==
    [][/\ (pc = "deinstallnetifs" /\ pc' # pc)
          => (~doeventloop /\ service = "none" /\ daemons' = daemons)
       /\ (pc = "stopdaemons" /\ pc' # pc)
          => (~doeventloop /\ installed = {})]_vars


(* C26: an accepted event -- complete, for a known NEM whose owner is in the
   session, with coordinates in the coordinate space -- sets the position of
   the owner, and of no other node, to the truncated coordinates and adds
   exactly one output: a node message for the owner with these coordinates
   and the latitude, longitude and altitude of the event as received. *)
C26_AcceptedEventSetsAndBroadcasts ==
    [][\A t \in Threads :
         (EventDone(t) /\ ValidEvent(Head(wev[t])))
         => LET e == Head(wev[t])
                xyz == <<IntOf(e.x), IntOf(e.y), IntOf(e.z)>>
            IN \E o \in NemOwners(e.nem) :
                 /\ position' = [position EXCEPT ![o] = xyz]
                 /\ outputs' = Append(outputs,
                        [kind |-> "node_msg", nem |-> e.nem, node |-> o,
                         pos |-> xyz, geo |-> <<e.x, e.y, e.z>>])]_vars

(* a node message went out whose position is 65535 on the first axis while
   the event said 65535.5 *)
C26_Witness ==
    /\ outputs # <<>>
    /\ LET last == outputs[Len(outputs)]
       IN /\ last.kind = "node_msg"
          /\ position[last.node] = last.pos
          /\ last.pos[1] = 65535 /\ last.geo[1] = 2 * 65535 + 1


(* the servers of the registered EMANE nodes *)
Participants == UNION {nodeServers[k] : k \in emane_nodes}

(* how many configuration messages were sent to server s *)
SentTo(s) == Cardinality({i \in DOMAIN sent : sent[i].to = s})

(* the negotiation of a master with EMANE nodes has returned *)
Negotiated == master /\ emane_nodes # {} /\ run.negotiated

(* C27: when the master's negotiation has returned, one configuration message
   has been sent to every server of a registered EMANE node that is not the
   local server and has a socket, and none to any other server; the platform
   ids sent are consecutive from the configured start on, so that a skipped
   server used none; and no peer had answered or applied anything by then. *)
C27_OnePushPerReachablePeer ==
    Negotiated =>
        /\ \A s \in ServerNames :
             SentTo(s) = IF s \in Participants /\ s # Localhost /\ srvSock[s]
                         THEN 1 ELSE 0
        /\ \A i \in DOMAIN sent : sent[i].values.platform_id_start = cd.start + i
        /\ (pc = "setup_tail" => \A p \in PeerNames : peerCfg[p].idx = 0)

(* peer 1 takes part without a socket and was skipped; peer 2, after it in
   name order, got the one message sent, with the first platform id *)
C27_Witness ==
    /\ Negotiated /\ pc = "setup_tail"
    /\ {1, 2} \subseteq Participants /\ ~srvSock[1] /\ srvSock[2]
    /\ Len(sent) = 1 /\ sent[1].to = 2
    /\ sent[1].values.platform_id_start = cd.start + 1


(* the interfaces the counters hold for the peers pushed to before the i-th
   message *)
CountedBefore(i) ==
    Sum([j \in 1..(i - 1) |-> IF sent[j].to \in DOMAIN ifccounts
                              THEN ifccounts[sent[j].to] ELSE 0], 1..(i - 1))

(* C28: the messages of one negotiation go out in server-name order, and the
   nem_id_start of the i-th is the nem_id_start the master was configured
   with, plus the number of interfaces of its registered EMANE nodes, plus
   the counters of the peers pushed to before; a peer without a counter adds
   nothing. *)
C28_PushedNemStart ==
    /\ \A i, j \in DOMAIN sent : i < j => sent[i].to < sent[j].to
    /\ \A i \in DOMAIN sent :
         sent[i].values.nem_id_start =
            cd.nemstart + Cardinality(RegisteredNems) + CountedBefore(i)

(* two peers were pushed to; the first has two interfaces counted and the
   second starts two ids after it *)
C28_Witness ==
    /\ Len(sent) = 2
    /\ sent[1].to \in DOMAIN ifccounts /\ ifccounts[sent[1].to] = 2
    /\ sent[2].values.nem_id_start = sent[1].values.nem_id_start + 2
    /\ sent[1].values.nem_id_start = cd.nemstart + Cardinality(RegisteredNems)


(* the NEM ids on the lines of the summary file *)
SummaryIds == {l[3] : l \in files.emane_nems}

(* C29: after a successful startup the summary file has one line for every
   registered interface and no other, the line of an interface carries the
   NEM id buildplatformxml gave it, these ids are the N ids from nem_id_start
   on; with two interfaces on one EMANE node and nem_id_start = 1 the file
   has two lines, with the ids 1 and 2. *)
C29_SummaryMatchesAssignment ==
    (Idle /\ ret = SUCCESS) =>
        /\ Cardinality(files.emane_nems) = Cardinality(RegisteredNems)
        /\ \A x \in RegisteredNems :
             \E l \in files.emane_nems :
                l[1] = x[2].node /\ l[2] = x[2].netindex /\ l[3] = nemidmap[x]
        /\ SummaryIds = config.nem_id_start .. (config.nem_id_start + numnems - 1)
        /\ (numnems = 2 /\ Cardinality(emane_nodes) = 1 /\ config.nem_id_start = 1)
           => (Cardinality(files.emane_nems) = 2 /\ SummaryIds = {1, 2})

(* the scenario: one EMANE node, two interfaces, nem_id_start = 1 *)
C29_Witness ==
    /\ Idle /\ ret = SUCCESS
    /\ Cardinality(emane_nodes) = 1 /\ numnems = 2 /\ config.nem_id_start = 1
    /\ Cardinality(files.emane_nems) = 2 /\ SummaryIds = {1, 2}


(* C30: a worker whose receive call returns once the loop flag is cleared
   handles nothing of what it returned and leaves its loop, and when
   stopeventmonitor returns the worker it was stopping has left
   eventmonitorloop and the thread handle is cleared. *)
C30_StopWaitsForWorker ==
    [][/\ \A t \in Threads :
            (wpc[t] = "check" /\ wpc'[t] # "check" /\ ~doeventloop)
            => (wpc'[t] = "exited" /\ position' = position /\ outputs' = outputs)
       /\ (pc = "stop_join" /\ pc' # pc)
          => /\ eventmonthread' = 0
             /\ eventmonthread # 0 => wpc'[eventmonthread] = "exited"]_vars


-----------------------------------------------------------------------------
(* shutdown against the worker and the broker thread *)

InitLive ==
    /\ InitManager
    /\ portItems = NoPortItems
    /\ topo \in {<<>>, [k \in {1} |-> {NetifOf(11, 0), NetifOf(12, 0)}]}
    /\ master = TRUE
    /\ nodeServers = [k \in DOMAIN topo |-> {Localhost}]
    /\ srvSock = [s \in ServerNames |-> FALSE]
    /\ peerIfcs = [p \in PeerNames |-> 0]
    /\ monitorOn = TRUE
    /\ sessionNodes = OwnerIds
    /\ eventKinds = PlainEvents
    /\ launchFails = {}
    /\ config = DefaultConfig
    /\ linkMsgs = [m \in {LinkAdd(Min(PeerNames))} |-> 1]
    /\ opsLeft = MaxOps
    /\ eventsLeft = 0

(* the worker when the event channel delivers nothing: it waits in
   nextEvent() until the transport is broken or gone *)
WorkerBlocked == \E t \in Threads :
                    \/ WorkerStart(t) \/ WorkerLoop(t) \/ WorkerCall(t)
                    \/ WorkerRecvBreak(t) \/ WorkerRecvClosed(t)

NextLive ==
    \/ StartupCall \/ ResetCall \/ ShutdownCall
    \/ StartupSteps \/ ShutdownSteps
    \/ BrokerSteps
    \/ WorkerBlocked

(* the session thread keeps running while it is inside shutdown, and the
   broker thread leaves the with-block it entered; nothing is assumed of the
   worker, which may stay in nextEvent() for ever *)
SpecLive == /\ InitLive /\ [][NextLive]_vars
            /\ WF_vars(ShutdownSteps)
            /\ WF_vars(HandleDistributed)

(* C31: every shutdown that was called returns, whatever the worker and the
   broker thread do meanwhile. *)
C31_ShutdownReturns == (op = "shutdown") ~> (op = "none")

(* a shutdown has returned while the worker it stopped is still inside
   nextEvent() *)
C31_Witness ==
    /\ Idle /\ run.worker /\ eventmonthread = 0 /\ ~doeventloop
    /\ \E t \in Threads : wpc[t] = "recv"


-----------------------------------------------------------------------------
(* The interface counters against the notifications of the broker *)

BothPeers == [add |-> TRUE, net |-> TRUE, servers |-> {Min(PeerNames), Min(PeerNames) + 1}]
NotAdd == [add |-> FALSE, net |-> TRUE, servers |-> {Min(PeerNames)}]
NotNet == [add |-> TRUE, net |-> FALSE, servers |-> {Min(PeerNames)}]
NoServer == [add |-> TRUE, net |-> TRUE, servers |-> {}]

InitCount ==
    /\ InitManager
    /\ portItems = NoPortItems
    /\ topo = [k \in {1} |-> {NetifOf(11, 0), NetifOf(12, 0)}]
    /\ master = TRUE
    /\ nodeServers = [k \in DOMAIN topo |-> {Localhost}]
    /\ srvSock = [s \in ServerNames |-> FALSE]
    /\ peerIfcs = [p \in PeerNames |-> 0]
    /\ monitorOn = FALSE
    /\ sessionNodes = OwnerIds
    /\ eventKinds = PlainEvents
    /\ launchFails = {}
    /\ config = DefaultConfig
    /\ linkMsgs = [m \in {LinkAdd(p) : p \in PeerNames}
                         \cup {BothPeers, NotAdd, NotNet, NoServer} |->
                      IF m = LinkAdd(Min(PeerNames)) THEN MaxLinks
                      ELSE IF m \in {BothPeers, NotAdd, NotNet, NoServer} THEN 1
                      ELSE 0]
    /\ opsLeft = MaxOps
    /\ eventsLeft = 0

NextCount ==
    \/ StartupCall \/ ShutdownCall
    \/ StartupSteps \/ ShutdownSteps
    \/ BrokerSteps \/ HandleDistributedIgnore

SpecCount == InitCount /\ [][NextCount]_vars

CountOf(s) == IF s \in DOMAIN ifccounts THEN ifccounts[s] ELSE 0

(* C32: the counter of every server equals the number of interfaces that
   qualifying link-add notifications have reported for it since shutdown last
   cleared the counters, so no increment is lost; a notification that does
   not qualify leaves the counter map as it was. *)
C32_CountsMatchNotifications ==
    /\ [](\A s \in ServerNames : CountOf(s) = linkSeen[s])
    /\ [][HandleDistributedIgnore => UNCHANGED ifccounts]_vars

(* every notification has been handled, a shutdown has cleared the counters
   in between, and two more interfaces have been counted for one peer *)
C32_Witness ==
    /\ \A m \in DOMAIN linkMsgs : linkMsgs[m] = 0
    /\ ifcLock = "free"
    /\ opsLeft < MaxOps
    /\ CountOf(Min(PeerNames)) = 2
    /\ CountOf(Min(PeerNames) + 1) = 1


-----------------------------------------------------------------------------
(* What reset touches *)

PortChoices == {NotSet, DefaultPlatformPort + 1}

InitReset ==
    /\ InitManager
    /\ portItems \in [{"emane_platform_port", "emane_transform_port"} -> PortChoices]
    /\ topo \in {<<>>, [k \in {1} |-> {NetifOf(11, 0), NetifOf(12, 0)}]}
    /\ master = TRUE
    /\ nodeServers = [k \in DOMAIN topo |-> {Localhost}]
    /\ srvSock = [s \in ServerNames |-> FALSE]
    /\ peerIfcs = [p \in PeerNames |-> 0]
    /\ monitorOn = TRUE
    /\ sessionNodes = OwnerIds
    /\ eventKinds = PlainEvents
    /\ launchFails = {}
    /\ config = DefaultConfig
    /\ linkMsgs = [m \in {LinkAdd(Min(PeerNames))} |-> 1]
    /\ opsLeft = MaxOps
    /\ eventsLeft = 0

SpecReset == InitReset /\ [][NextLive]_vars

(* the value a port counter is configured to *)
Configured(name, default) ==
    IF portItems[name] = NotSet THEN default ELSE portItems[name]

(* C33: the step of reset empties the registry, sets the two port counters to
   their configured values and leaves every other field as it was, the
   interface counters, the configuration, the transport and the worker among
   them; the interface counters are emptied by shutdown alone, and shutdown
   empties them whether or not the registry holds a node. *)
C33_ResetFrame ==
    /\ [][(pc = "reset" /\ pc' # pc) =>
            /\ emane_nodes' = {}
            /\ platformport' = Configured("emane_platform_port", DefaultPlatformPort)
            /\ transformport' = Configured("emane_transform_port", DefaultTransformPort)
            /\ UNCHANGED <<config, nemidmap, ifccounts, nodeLock, ifcLock, service,
                           svcBreak, doeventloop, eventmonthread, workerVars,
                           files, daemons, installed>>]_vars
    /\ [][(ifccounts # <<>> /\ ifccounts' = <<>>) => pc = "sd_counts"]_vars
    /\ [][(pc = "sd_counts" /\ pc' # pc) => ifccounts' = <<>>]_vars

(* a reset after a startup has returned: the registry is empty, the port
   counters hold the configured values, and the interface counter, the
   transport and the worker of the run are still there *)
C33_Witness ==
    /\ Idle /\ emane_nodes = {} /\ run.worker
    /\ platformport = DefaultPlatformPort + 1 /\ transformport = DefaultTransformPort
    /\ ifccounts # <<>> /\ service = "open"
    /\ eventmonthread # 0 /\ wpc[eventmonthread] = "recv"

(* a shutdown that found the registry empty has returned, and the counter a
   notification had set is gone *)
C33_WitnessShutdown ==
    /\ Idle /\ topo = <<>> /\ ifccounts = <<>>
    /\ \A m \in DOMAIN linkMsgs : linkMsgs[m] = 0
    /\ opsLeft = MaxOps - 1


-----------------------------------------------------------------------------
(* Negotiating again *)

(* a master whose one EMANE node is shared with peers that all have a socket;
   no link notification arrives, so the interface counters stay as they are *)
InitRenegotiate ==
    /\ InitManager
    /\ portItems = NoPortItems
    /\ topo = [k \in {1} |-> {NetifOf(11, 0), NetifOf(12, 0)}]
    /\ master = TRUE
    /\ \E peers \in SUBSET PeerNames :
         /\ nodeServers = [k \in DOMAIN topo |-> peers \cup {Localhost}]
         /\ srvSock = [s \in ServerNames |-> s \in peers]
    /\ peerIfcs = [p \in PeerNames |-> 0]
    /\ monitorOn = FALSE
    /\ sessionNodes = OwnerIds
    /\ eventKinds = PlainEvents
    /\ launchFails = {}
    /\ config = DefaultConfig
    /\ linkMsgs = <<>>
    /\ opsLeft = MaxOps
    /\ eventsLeft = 0

NextRenegotiate == StartupCall \/ StartupSteps \/ PushSteps

SpecRenegotiate == InitRenegotiate /\ [][NextRenegotiate]_vars

(* C34: negotiating again on the same topology, with the same peers and
   interface counters, pushes to every peer the platform id and the NEM-id
   start it was pushed before, and the master's own platform_id_start and
   nem_id_start stay what they were before the first negotiation. *)
C34_RenegotiationRepeats ==
    /\ \A i, j \in DOMAIN sent :
          sent[i].to = sent[j].to =>
             /\ sent[i].values.platform_id_start = sent[j].values.platform_id_start
             /\ sent[i].values.nem_id_start = sent[j].values.nem_id_start
    /\ config.platform_id_start = DefaultConfig.platform_id_start
    /\ config.nem_id_start = DefaultConfig.nem_id_start

(* what does hold: a negotiation that pushes nothing leaves the master's two
   values alone *)
C34_NoPushNoChange ==
    sent = <<>> => /\ config.platform_id_start = DefaultConfig.platform_id_start
                   /\ config.nem_id_start = DefaultConfig.nem_id_start


-----------------------------------------------------------------------------
(* What shutdown leaves behind *)

(* one call more than elsewhere, for a startup, a reset and a shutdown *)
InitLeftover ==
    /\ InitManager
    /\ portItems = NoPortItems
    /\ topo = [k \in {1} |-> {NetifOf(11, 0), NetifOf(12, 0)}]
    /\ master = TRUE
    /\ nodeServers = [k \in DOMAIN topo |-> {Localhost}]
    /\ srvSock = [s \in ServerNames |-> FALSE]
    /\ peerIfcs = [p \in PeerNames |-> 0]
    /\ monitorOn = TRUE
    /\ sessionNodes = OwnerIds
    /\ eventKinds = PlainEvents
    /\ launchFails = {}
    /\ config = DefaultConfig
    /\ linkMsgs = <<>>
    /\ opsLeft = MaxOps + 1
    /\ eventsLeft = 0

NextLeftover ==
    \/ StartupCall \/ ResetCall \/ ShutdownCall
    \/ StartupSteps \/ ShutdownSteps
    \/ WorkerBlocked

SpecLeftover == InitLeftover /\ [][NextLeftover]_vars

(* C35: when shutdown returns, no worker thread is alive and the
   event-service transport is released, whatever startups and resets came
   before. *)
C35_ShutdownStopsWorker ==
    [][(op = "shutdown" /\ op' = "none") =>
          /\ \A t \in Threads : wpc'[t] \in {"unborn", "exited"}
          /\ service' = "none"]_vars

(* the same for the fields of the manager alone: the transport is released,
   the loop flag is cleared and no thread handle is kept *)
C35_ShutdownClearsFields ==
    [][(op = "shutdown" /\ op' = "none") =>
          (service' = "none" /\ ~doeventloop' /\ eventmonthread' = 0)]_vars

(* what does hold: a shutdown that finds a node in the registry releases the
   transport and drops the thread handle *)
C35_ShutdownWithNodes ==
    [][(op = "shutdown" /\ op' = "none" /\ emane_nodes # {}) =>
          (service' = "none" /\ ~doeventloop' /\ eventmonthread' = 0)]_vars


-----------------------------------------------------------------------------
(* Daemons and the documents they read *)

(* the document keys one startdaemons call has launched a daemon for *)
Launched == {run.launches[i] : i \in DOMAIN run.launches}

(* C36: in a startup, a daemon is launched only for a platform document that
   buildplatformxml wrote in that startup (the daemon of node n for
   platform<n>.xml, the host daemon for platform.xml), and once startdaemons
   has returned every document written has its daemon. *)
C36_DaemonsMatchDocuments ==
    /\ op = "startup" => Launched \subseteq run.docs
    /\ (pc \in {"installnetifs", "finish"} \/ (Idle /\ ret = SUCCESS /\ run.built))
       => (Launched = run.docs /\ run.docs = DOMAIN files.platform)

(* startdaemons has returned after launching the host daemon for platform.xml
   and a node's daemon for its own document *)
C36_Witness ==
    /\ pc = "installnetifs"
    /\ HostKey \in run.docs /\ HostKey \in Launched
    /\ \E n \in OwnerIds \ RawOwners : n \in run.docs /\ n \in Launched


-----------------------------------------------------------------------------
(* Who negotiates *)

(* a master or a slave, with or without EMANE nodes, sharing its nodes with a
   peer that has a socket *)
InitRoles ==
    /\ InitManager
    /\ portItems = NoPortItems
    /\ topo \in {<<>>, [k \in {1} |-> {NetifOf(11, 0), NetifOf(12, 0)}]}
    /\ master \in BOOLEAN
    /\ nodeServers = [k \in DOMAIN topo |-> {Localhost, Min(PeerNames)}]
    /\ srvSock = [s \in ServerNames |-> s = Min(PeerNames)]
    /\ peerIfcs = [p \in PeerNames |-> 0]
    /\ monitorOn = FALSE
    /\ sessionNodes = OwnerIds
    /\ eventKinds = PlainEvents
    /\ launchFails = {}
    /\ config = DefaultConfig
    /\ linkMsgs = <<>>
    /\ opsLeft = MaxOps
    /\ eventsLeft = 0

NextRoles ==
    \/ StartupCall \/ ResetCall \/ CheckDistributedCall
    \/ StartupSteps \/ PushSteps
    \/ ConfigPush

SpecRoles == InitRoles /\ [][NextRoles]_vars

(* the positions of the session thread inside checkdistributed *)
InCheckDistributed == pc \in {"checkdistributed", "cd_servers", "cd_lock", "cd_count"}

(* C37: nothing is sent to a server unless the instance is the master and its
   registry holds a node, and a step of checkdistributed made by a slave or
   with an empty registry changes no configuration value of the instance. *)
C37_OnlyMasterWithNodesPushes ==
    [][/\ sent' # sent => (master /\ emane_nodes # {})
       /\ (InCheckDistributed /\ pc' # pc /\ ~(master /\ emane_nodes # {}))
          => (config' = config /\ cd'.ret = TRUE /\ ~InCheckDistributed')]_vars

(* a slave with a registered node and a peer within reach has been through
   checkdistributed and sent nothing *)
C37_Witness ==
    /\ ~master /\ emane_nodes # {}
    /\ \E k \in emane_nodes : \E s \in nodeServers[k] : s # Localhost /\ srvSock[s]
    /\ run.negotiated /\ cd.ret = TRUE
    /\ sent = <<>> /\ config = DefaultConfig

(* a master whose registry a reset had emptied called checkdistributed and
   sent nothing *)
C37_WitnessEmpty ==
    /\ master /\ DOMAIN topo # {} /\ emane_nodes = {}
    /\ Idle /\ cd.ret = TRUE /\ opsLeft = 0 /\ run.negotiated
    /\ sent = <<>> /\ config = DefaultConfig


-----------------------------------------------------------------------------
(* The platform id a slave waits for *)

(* platform_id_start is an INT32 option no code restricts: a value below the
   compiled-in default, next to the values used above *)
LowPlatformStart == DefaultPlatformIdStart - 1

InitPush ==
    /\ InitManager
    /\ portItems = NoPortItems
    /\ topo = [k \in {1} |-> {NetifOf(11, 0)}]
    /\ master = TRUE
    /\ \E peers \in SUBSET PeerNames :
         /\ nodeServers = [k \in DOMAIN topo |-> peers \cup {Localhost}]
         /\ srvSock = [s \in ServerNames |-> s \in peers]
         /\ peerIfcs = [p \in PeerNames |-> IF p \in peers THEN Min(PeerIfcCounts \ {0}) ELSE 0]
    /\ monitorOn = FALSE
    /\ sessionNodes = OwnerIds
    /\ eventKinds = PlainEvents
    /\ launchFails = {}
    /\ \E plat \in PlatformStarts \cup {LowPlatformStart} :
         config = [DefaultConfig EXCEPT !.platform_id_start = plat]
    /\ linkMsgs = [m \in {LinkAdd(p) : p \in {q \in PeerNames : peerIfcs[q] > 0}} |->
                      peerIfcs[Min(m.servers)]]
    /\ opsLeft = 1
    /\ eventsLeft = 0

SpecPush == InitPush /\ [][NextAlloc]_vars

(* C38: no platform id pushed to a peer is the compiled-in default of
   platform_id_start, so a slave that holds a pushed configuration is past
   the platform-id check of its setup. *)
C38_PushedIdNeverDefault ==
    /\ \A i \in DOMAIN sent :
          sent[i].values.platform_id_start # DefaultPlatformIdStart
    /\ \A p \in PeerNames :
          peerCfg[p].idx > 0
          => ~SlaveNotReady(TRUE, peerCfg[p].values.platform_id_start)

(* what does hold: a master whose platform_id_start is not below the default
   pushes ids above the default *)
C38_PushedIdAboveDefault ==
    \A i \in DOMAIN sent :
       sent[i].values.platform_id_start > DefaultPlatformIdStart

====
